---- MODULE Spec2Model ----
(***************************************************************************)
(* Verification model of the raetzel_winter_2025 contest engine:           *)
(*   - the door time gate (WR_TIME, TimeBerlin, CalendarLogic),            *)
(*   - the QR token verifier (QRVerify) with its result cache,             *)
(*   - the signers that produce tokens (QRLinkGenerator, generateTestQR),   *)
(*   - the answer pipeline (AnswersStore, AnswerUtil) with its cache.      *)
(* Strings are sequences of character codes; time is counted in minutes    *)
(* (time gate) and milliseconds (verifier).                                *)
(***************************************************************************)
EXTENDS Integers, Sequences, FiniteSets, TLC

VARIABLES now, devTestUnlock, wrTimeLoaded, doorCheck,
          clock, session, publicKeys, nextCleanup, verificationCache, calls,
          submission, cacheConfig, answerCache, answerCalls, stage2,
          modalConfirm

timeVars == <<now, devTestUnlock, wrTimeLoaded, doorCheck>>
qrVars == <<clock, session, publicKeys, nextCleanup, verificationCache, calls>>
answerVars == <<submission, cacheConfig, answerCache, answerCalls, stage2>>
vars == <<timeVars, qrVars, answerVars, modalConfirm>>

(***************************************************************************)
(* Part 1. Calendar arithmetic of the JavaScript Date object, local zone   *)
(* Europe/Berlin (no daylight-saving change between November and March).   *)
(* An instant is a number of minutes since 2025-11-01T00:00 local time.    *)
(***************************************************************************)

\* Last modelled day, counted from 2025-11-01 (day 0).
MaxDayIndex == 94

MinutesPerDay == 24 * 60

\* The calendar months the model covers: <<year, month index (0-based), days>>.
Months ==
  << <<2025, 10, 30>>, <<2025, 11, 31>>, <<2026, 0, 31>>, <<2026, 1, 28>>, <<2026, 2, 31>> >>

RECURSIVE DaysBeforeMonth(_)
DaysBeforeMonth(i) == IF i <= 1 THEN 0 ELSE Months[i - 1][3] + DaysBeforeMonth(i - 1)

\* Index in Months of the month that holds day index n.
RECURSIVE MonthSlot(_, _)
MonthSlot(n, i) ==
  IF i >= Len(Months) \/ n < DaysBeforeMonth(i) + Months[i][3] THEN i ELSE MonthSlot(n, i + 1)

DayIndex(t) == t \div MinutesPerDay

\* Date.prototype.getFullYear / getMonth / getDate / getHours / getMinutes.
GetFullYear(t) == Months[MonthSlot(DayIndex(t), 1)][1]
GetMonth(t) == Months[MonthSlot(DayIndex(t), 1)][2]
GetDate(t) == DayIndex(t) - DaysBeforeMonth(MonthSlot(DayIndex(t), 1)) + 1
GetHours(t) == (t % MinutesPerDay) \div 60
GetMinutes(t) == t % 60

\* new Date(2025, monthIndex, day, hour, minute, 0, 0): a day outside the
\* month rolls over into the neighbouring month, as in JavaScript.
NewDate2025(monthIndex, day, hour, minute) ==
  (DaysBeforeMonth(monthIndex - 9) + day - 1) * MinutesPerDay + hour * 60 + minute

(***************************************************************************)
(* Part 2. The time gate.                                                  *)
(***************************************************************************)

Doors == 1..24

\* WR_TIME_CFG
DailyUnlockHour == 9
DailyUnlockMinute == 0
DevTestDay == 2
\* new Date('2025-11-14T18:35:00+01:00')
DevTestUnlockFixed == NewDate2025(10, 14, 18, 35)

\* TimeBerlin.config.dailyReleaseTime
ReleaseHour == 6
ReleaseMinute == 0

getDoorUnlockDate(day) == NewDate2025(11, day, DailyUnlockHour, DailyUnlockMinute)

\* WR_TIME.isDoorUnlocked(day, now); override is WR_TIME_CFG.devTestUnlockISO.
isDoorUnlockedNoOverride(day, t, override) == t >= getDoorUnlockDate(day)
isDoorUnlockedStrict(day, t, override) ==
  IF day = DevTestDay /\ t > override THEN TRUE ELSE t > getDoorUnlockDate(day)
isDoorUnlocked(day, t, override) ==
  IF day = DevTestDay /\ t >= override THEN TRUE ELSE t >= getDoorUnlockDate(day)

\* Date.prototype.setHours(hour, minute, 0, 0) on a copy of t, and
\* setDate(getDate() + 1): the same time of day one calendar day later.
SetHours(t, hour, minute) == DayIndex(t) * MinutesPerDay + hour * 60 + minute
NextCalendarDay(t) == (DayIndex(t) + 1) * MinutesPerDay + (t % MinutesPerDay)

\* getNextDailyUnlock with the comparison `now <= today`.
getNextDailyUnlockInclusive(t) ==
  LET today == SetHours(t, DailyUnlockHour, DailyUnlockMinute)
  IN  IF t <= today THEN today ELSE NextCalendarDay(today)
\* WR_TIME.getNextDailyUnlock(now).
getNextDailyUnlock(t) ==
  LET today == SetHours(t, DailyUnlockHour, DailyUnlockMinute)
  IN  IF t < today THEN today ELSE NextCalendarDay(today)

NoDay == 0   \* JavaScript null

\* WR_TIME.getCurrentDecemberDay and CalendarLogic.getCurrentDecemberDay.
Min(a, b) == IF a <= b THEN a ELSE b
getCurrentDecemberDayCal(t) ==
  LET month == GetMonth(t) + 1
  IN  IF month = 12 THEN Min(GetDate(t), 24)
      ELSE IF month > 12 THEN 24
      ELSE NoDay

\* TimeBerlin.getCurrentDecemberDay.
getCurrentDecemberDay(t) ==
  LET month == GetMonth(t) + 1
      day == GetDate(t)
  IN  IF month = 12 /\ day >= 1 /\ day <= 24 THEN day
      ELSE IF month > 12 THEN 24
      ELSE NoDay

\* TimeBerlin.isPuzzleDayAvailable(puzzleDay, currentTime).
isPuzzleDayAvailable(puzzleDay, t) ==
  LET currentDecemberDay == getCurrentDecemberDay(t)
  IN  IF currentDecemberDay = NoDay THEN GetMonth(t) + 1 > 12
      ELSE IF puzzleDay < currentDecemberDay THEN TRUE
      ELSE IF puzzleDay = currentDecemberDay
        THEN GetHours(t) > ReleaseHour
             \/ (GetHours(t) = ReleaseHour /\ GetMinutes(t) >= ReleaseMinute)
      ELSE FALSE

\* CalendarLogic.isPuzzleAvailable(day, currentDecemberDay), called by
\* updateDoorDisplay with currentDecemberDay = getCurrentDecemberDay(now).
isPuzzleAvailable(day, t, override, wrTime) ==
  IF wrTime THEN isDoorUnlocked(day, t, override)
  ELSE LET currentDecemberDay == getCurrentDecemberDayCal(t)
       IN  IF currentDecemberDay = NoDay THEN GetMonth(t) > 11
           ELSE day <= currentDecemberDay

\* The minutes of a day at which the model samples the clock: midnight, the
\* minutes around the 06:00 and 09:00 releases and around the 18:35 override.
MinuteSamples == {0, 359, 360, 539, 540, 1114, 1115, 1439}

Instants == {d * MinutesPerDay + m : d \in 0..MaxDayIndex, m \in MinuteSamples}

\* The override instants a deployment can have: the fixed ISO instant
\* (time.berlin.backup.js) or the instant the module was loaded (new Date()).
LoadInstants == {NewDate2025(10, 20, 0, 0), NewDate2025(11, 2, 9, 0), NewDate2025(11, 10, 6, 0)}
OverrideInstants == {DevTestUnlockFixed} \cup LoadInstants

NoCheck == [at |-> -1]

TimeInit ==
  /\ now \in {0, NewDate2025(10, 14, 0, 0)}
  /\ devTestUnlock \in OverrideInstants
  /\ wrTimeLoaded \in BOOLEAN
  /\ doorCheck = NoCheck

\* The clock moves on to a later sampled instant of the same or the next day.
Tick ==
  /\ \E t \in Instants :
       /\ t > now
       /\ t <= now + MinutesPerDay
       /\ now' = t
  /\ doorCheck' = NoCheck
  /\ UNCHANGED <<modalConfirm, devTestUnlock, wrTimeLoaded, qrVars, answerVars>>

\* Challenge ids outside 1..24 that a caller can hand to isDoorUnlocked.
OutOfRangeDays == {-1, 0, 25}

\* updateCalendarDisplay / runTimeTests: every door is asked of every check,
\* isDoorUnlocked is asked of the ids of OutOfRangeDays as well, and the
\* countdown asks getNextDailyUnlock.
CheckDoors ==
  /\ doorCheck = NoCheck
  /\ doorCheck' =
       [at |-> now,
        wrTime |-> [d \in Doors |-> isDoorUnlocked(d, now, devTestUnlock)],
        outOfRange |-> [d \in OutOfRangeDays |-> isDoorUnlocked(d, now, devTestUnlock)],
        nextUnlock |-> getNextDailyUnlock(now),
        timeBerlin |-> [d \in Doors |-> isPuzzleDayAvailable(d, now)],
        calendar |-> [d \in Doors |-> isPuzzleAvailable(d, now, devTestUnlock, wrTimeLoaded)]]
  /\ UNCHANGED <<modalConfirm, now, devTestUnlock, wrTimeLoaded, qrVars, answerVars>>

TimeNext == Tick \/ CheckDoors


(***************************************************************************)
(* Claims about the time gate, checked under SpecTime.                     *)
(***************************************************************************)

\* The instant t, read off the calendar, is at or after hh:mm on December d, 2025.
AtOrAfterDecember(t, d, hh, mm) ==
  \/ GetFullYear(t) > 2025
  \/ /\ GetFullYear(t) = 2025
     /\ GetMonth(t) = 11
     /\ \/ GetDate(t) > d
        \/ GetDate(t) = d /\ GetHours(t) * 60 + GetMinutes(t) >= hh * 60 + mm

\* C6: a door without override is locked before 09:00 on December d, 2025 and
\* unlocked from that instant on, the instant itself included.
C6_ScheduledGate ==
  doorCheck # NoCheck =>
    \A d \in Doors \ {DevTestDay} :
      doorCheck.wrTime[d] <=> AtOrAfterDecember(doorCheck.at, d, 9, 0)

\* C6 witness: a check made exactly at 09:00 on December 5 finds door 5 open
\* and door 6 still locked.
C6_Witness ==
  /\ doorCheck # NoCheck
  /\ GetMonth(doorCheck.at) = 11 /\ GetDate(doorCheck.at) = 5
  /\ GetHours(doorCheck.at) = 9 /\ GetMinutes(doorCheck.at) = 0
  /\ doorCheck.wrTime[5]
  /\ ~doorCheck.wrTime[6]

\* C7: when the override of door 2 lies before its scheduled moment, door 2 is
\* locked at every instant before the override and unlocked at every instant
\* from the override up to the scheduled moment.
C7_OverrideWins ==
  (doorCheck # NoCheck /\ ~AtOrAfterDecember(devTestUnlock, DevTestDay, 9, 0)) =>
    /\ doorCheck.at < devTestUnlock => ~doorCheck.wrTime[DevTestDay]
    /\ (doorCheck.at >= devTestUnlock /\ ~AtOrAfterDecember(doorCheck.at, DevTestDay, 9, 0))
         => doorCheck.wrTime[DevTestDay]

\* C7 witness: with the override of November 14, 18:35, a check at exactly
\* that instant finds door 2 open while door 1 is locked.
C7_Witness ==
  /\ doorCheck # NoCheck
  /\ devTestUnlock = DevTestUnlockFixed
  /\ GetMonth(doorCheck.at) = 10 /\ GetDate(doorCheck.at) = 14
  /\ GetHours(doorCheck.at) = 18 /\ GetMinutes(doorCheck.at) = 35
  /\ doorCheck.wrTime[DevTestDay]
  /\ ~doorCheck.wrTime[1]

\* C8 (as claimed): at every instant after the release of door 24, each of the
\* three availability checks reports every door available.
C8_AllOpenAfterLastRelease ==
  (doorCheck # NoCheck /\ AtOrAfterDecember(doorCheck.at, 24, 9, 1)) =>
    \A d \in Doors :
      /\ doorCheck.wrTime[d]
      /\ doorCheck.timeBerlin[d]
      /\ doorCheck.calendar[d]

(***************************************************************************)
(* Part 3. JavaScript strings, numbers and encodings.  A string is the     *)
(* sequence of its character codes.                                        *)
(***************************************************************************)

RECURSIVE Flatten(_)
Flatten(parts) == IF parts = <<>> THEN <<>> ELSE Head(parts) \o Flatten(Tail(parts))

\* String.prototype.startsWith / endsWith
StartsWith(s, p) == Len(s) >= Len(p) /\ SubSeq(s, 1, Len(p)) = p
EndsWith(s, p) == Len(s) >= Len(p) /\ SubSeq(s, Len(s) - Len(p) + 1, Len(s)) = p

\* String.prototype.split(sep) for a one-character separator: the pieces
\* between consecutive separator positions.
SetMin(S) == CHOOSE x \in S : \A y \in S : x <= y
SetMax(S) == CHOOSE x \in S : \A y \in S : x >= y
RECURSIVE SplitAt(_, _, _)
SplitAt(s, cuts, from) ==
  IF cuts = {} THEN <<SubSeq(s, from, Len(s))>>
  ELSE LET c == SetMin(cuts)
       IN  <<SubSeq(s, from, c - 1)>> \o SplitAt(s, cuts \ {c}, c + 1)
Split(s, sep) == SplitAt(s, {i \in 1..Len(s) : s[i] = sep}, 1)

\* String.prototype.trim (ASCII white space).
IsSpace(c) == c \in {9, 10, 11, 12, 13, 32}
Trim(s) ==
  LET inked == {i \in 1..Len(s) : ~IsSpace(s[i])}
  IN  IF inked = {} THEN <<>> ELSE SubSeq(s, SetMin(inked), SetMax(inked))

\* 32-bit integers are kept as <<high 16 bits, low 16 bits>>.
Half == 65536

\* Number.prototype.toString(radix) of the unsigned 32-bit value <<hi, lo>>.
DigitChar(d) == IF d < 10 THEN 48 + d ELSE 97 + d - 10
RECURSIVE ToRadix(_, _, _)
ToRadix(hi, lo, radix) ==
  IF hi = 0 /\ lo < radix THEN <<DigitChar(lo)>>
  ELSE LET t == (hi % radix) * Half + lo
       IN  Append(ToRadix(hi \div radix, t \div radix, radix), DigitChar(t % radix))

\* A signed 32-bit value is negative when its top bit is set; its magnitude.
IsNegative32(w) == w[1] >= 32768
Magnitude32(w) ==
  IF IsNegative32(w)
    THEN << (65535 - w[1] + (IF w[2] = 0 THEN 1 ELSE 0)) % Half, (Half - w[2]) % Half >>
    ELSE w
\* (n | 0).toString(radix): a minus sign and the digits of the magnitude.
\* The magnitude of -2^31 is 2^31, which <<32768, 0>> holds.
SignedToString(w, radix) ==
  IF IsNegative32(w)
    THEN <<45>> \o (IF w = <<32768, 0>> THEN ToRadix(32768, 0, radix)
                    ELSE ToRadix(Magnitude32(w)[1], Magnitude32(w)[2], radix))
    ELSE ToRadix(w[1], w[2], radix)
\* Math.abs(n | 0).toString(radix)
AbsToString(w, radix) ==
  IF w = <<32768, 0>> THEN ToRadix(32768, 0, radix)
  ELSE ToRadix(Magnitude32(w)[1], Magnitude32(w)[2], radix)

\* Number to decimal string, for the non-negative integers of the model.
RECURSIVE NumToString(_)
NumToString(n) ==
  IF n < 10 THEN <<48 + n>> ELSE Append(NumToString(n \div 10), 48 + (n % 10))

\* Bitwise exclusive or of two non-negative integers.
RECURSIVE BitXor(_, _)
BitXor(a, b) ==
  IF a = 0 THEN b
  ELSE IF b = 0 THEN a
  ELSE ((a + b) % 2) + 2 * BitXor(a \div 2, b \div 2)

\* hash = ((hash << 5) - hash) + char; hash = hash & hash  (31 * hash + char,
\* wrapped to 32 bits), from hash = 0.  Hash31Loop(s, i, w) runs the loop from
\* character i on with hash w, eight rounds per step where eight are left.
\* (The test on w makes the accumulator a value before the next step.)
Hash31Step(w, c) ==
  << (31 * w[1] + ((31 * w[2] + c) \div Half)) % Half, (31 * w[2] + c) % Half >>
RECURSIVE Hash31Loop(_, _, _)
Hash31Loop(s, i, w) ==
  IF i > Len(s) \/ w[1] < 0 THEN w
  ELSE IF i + 7 <= Len(s) THEN
    Hash31Loop(s, i + 8,
      Hash31Step(Hash31Step(Hash31Step(Hash31Step(Hash31Step(Hash31Step(Hash31Step(Hash31Step(
        w, s[i]), s[i + 1]), s[i + 2]), s[i + 3]), s[i + 4]), s[i + 5]), s[i + 6]), s[i + 7]))
  ELSE Hash31Loop(s, i + 1, Hash31Step(w, s[i]))
Hash31(s) == Hash31Loop(s, 1, <<0, 0>>)

\* hash ^= char; hash += (hash<<1)+(hash<<4)+(hash<<7)+(hash<<8)+(hash<<24)
\* (FNV-1a: multiply by 16777619 = 2^24 + 403, wrapped to 32 bits), from
\* hash = 2166136261 = <<33052, 40389>>.
Fnv1aStep(w, c) ==
  LET x == BitXor(w[2], c)
  IN  << (403 * w[1] + ((403 * x) \div Half) + (x % 256) * 256) % Half, (403 * x) % Half >>
RECURSIVE Fnv1aLoop(_, _, _)
Fnv1aLoop(s, i, w) ==
  IF i > Len(s) \/ w[1] < 0 THEN w
  ELSE IF i + 7 <= Len(s) THEN
    Fnv1aLoop(s, i + 8,
      Fnv1aStep(Fnv1aStep(Fnv1aStep(Fnv1aStep(Fnv1aStep(Fnv1aStep(Fnv1aStep(Fnv1aStep(
        w, s[i]), s[i + 1]), s[i + 2]), s[i + 3]), s[i + 4]), s[i + 5]), s[i + 6]), s[i + 7]))
  ELSE Fnv1aLoop(s, i + 1, Fnv1aStep(w, s[i]))
Fnv1a(s) == Fnv1aLoop(s, 1, <<33052, 40389>>)

\* The base64 alphabet A-Z a-z 0-9 + /
B64Char(i) ==
  IF i < 26 THEN 65 + i
  ELSE IF i < 52 THEN 97 + (i - 26)
  ELSE IF i < 62 THEN 48 + (i - 52)
  ELSE IF i = 62 THEN 43 ELSE 47
IsB64Char(c) ==
  (c >= 65 /\ c <= 90) \/ (c >= 97 /\ c <= 122) \/ (c >= 48 /\ c <= 57) \/ c = 43 \/ c = 47
B64Index(c) ==
  IF c >= 65 /\ c <= 90 THEN c - 65
  ELSE IF c >= 97 /\ c <= 122 THEN c - 97 + 26
  ELSE IF c >= 48 /\ c <= 57 THEN c - 48 + 52
  ELSE IF c = 43 THEN 62 ELSE 63

\* btoa(bytes): three bytes become four characters, padded with '='.
ByteAt(s, i) == IF i <= Len(s) THEN s[i] ELSE 0
Btoa(s) ==
  [k \in 1..(4 * ((Len(s) + 2) \div 3)) |->
     LET g == 3 * ((k - 1) \div 4)
         b1 == ByteAt(s, g + 1)
         b2 == ByteAt(s, g + 2)
         b3 == ByteAt(s, g + 3)
         q == (k - 1) % 4
     IN  IF q = 0 THEN B64Char(b1 \div 4)
         ELSE IF q = 1 THEN B64Char((b1 % 4) * 16 + b2 \div 16)
         ELSE IF q = 2 THEN (IF g + 2 > Len(s) THEN 61 ELSE B64Char((b2 % 16) * 4 + b3 \div 64))
         ELSE (IF g + 3 > Len(s) THEN 61 ELSE B64Char(b3 % 64))]

\* atob(text), the forgiving base64 decode: white space is removed, one or
\* two trailing '=' of a text whose length is a multiple of four are removed,
\* and the rest must be alphabet characters, not 1 modulo 4 in number; left
\* over bits are dropped.
DropSpaces(s) == SelectSeq(s, LAMBDA c : ~IsSpace(c))
AtobBody(s) ==
  LET t == DropSpaces(s)
      n == Len(t)
  IN  IF n % 4 = 0 /\ n >= 2 /\ t[n] = 61 /\ t[n - 1] = 61 THEN SubSeq(t, 1, n - 2)
      ELSE IF n % 4 = 0 /\ n >= 1 /\ t[n] = 61 THEN SubSeq(t, 1, n - 1)
      ELSE t
AtobThrows(s) ==
  LET b == AtobBody(s)
  IN  Len(b) % 4 = 1 \/ \E i \in 1..Len(b) : ~IsB64Char(b[i])
SextetAt(b, i) == IF i <= Len(b) THEN B64Index(b[i]) ELSE 0
Atob(s) ==
  LET b == AtobBody(s)
  IN  [k \in 1..((Len(b) * 3) \div 4) |->
         LET g == 4 * ((k - 1) \div 3)
             r == (k - 1) % 3
         IN  IF r = 0 THEN SextetAt(b, g + 1) * 4 + SextetAt(b, g + 2) \div 16
             ELSE IF r = 1 THEN (SextetAt(b, g + 2) % 16) * 16 + SextetAt(b, g + 3) \div 4
             ELSE (SextetAt(b, g + 3) % 4) * 64 + SextetAt(b, g + 4)]

(***************************************************************************)
(* Part 4. JavaScript values and JSON.  An object is the sequence of its   *)
(* <<key, value>> properties in insertion order.                           *)
(***************************************************************************)

Undefined == [t |-> "undefined"]
Null == [t |-> "null"]
Num(n) == [t |-> "num", n |-> n]
Str(s) == [t |-> "str", s |-> s]
Obj(props) == [t |-> "obj", props |-> props]

\* ToBoolean(value), as used by ||, ! and if.
Truthy(v) ==
  CASE v.t = "num" -> v.n # 0
    [] v.t = "str" -> v.s # <<>>
    [] v.t = "obj" -> TRUE
    [] OTHER -> FALSE

\* value[key]: the value of the property, undefined when there is none.
\* (Reading a property of null or undefined throws a TypeError.)
RECURSIVE PropFrom(_, _, _)
PropFrom(props, key, i) ==
  IF i = 0 THEN Undefined
  ELSE IF props[i][1] = key THEN props[i][2]
  ELSE PropFrom(props, key, i - 1)
Prop(v, key) == IF v.t = "obj" THEN PropFrom(v.props, key, Len(v.props)) ELSE Undefined
PropThrows(v) == v.t \in {"null", "undefined"}

\* {...obj, key: value}: an existing key keeps its place, a new one is appended.
SetProp(props, key, value) ==
  IF \E i \in 1..Len(props) : props[i][1] = key
    THEN [i \in 1..Len(props) |-> IF props[i][1] = key THEN <<key, value>> ELSE props[i]]
    ELSE Append(props, <<key, value>>)

\* JSON.stringify(value) for numbers, strings without characters that need
\* escaping, and objects of such values.
Quote(s) == <<34>> \o s \o <<34>>
RECURSIVE StringifyValue(_)
RECURSIVE StringifyProps(_, _)
StringifyValue(v) ==
  CASE v.t = "num" -> NumToString(v.n)
    [] v.t = "str" -> Quote(v.s)
    [] v.t = "null" -> <<110, 117, 108, 108>>
    [] OTHER -> <<123>> \o StringifyProps(v.props, 1) \o <<125>>
StringifyProps(props, i) ==
  IF i > Len(props) THEN <<>>
  ELSE (IF i > 1 THEN <<44>> ELSE <<>>)
       \o Quote(props[i][1]) \o <<58>> \o StringifyValue(props[i][2])
       \o StringifyProps(props, i + 1)
JSONStringify(v) == StringifyValue(v)

\* Array.prototype.sort() on keys: ascending by character codes.
RECURSIVE StrLess(_, _)
StrLess(a, b) ==
  IF b = <<>> THEN FALSE
  ELSE IF a = <<>> THEN TRUE
  ELSE IF Head(a) # Head(b) THEN Head(a) < Head(b)
  ELSE StrLess(Tail(a), Tail(b))
RECURSIVE InsertSorted(_, _)
InsertSorted(p, sorted) ==
  IF sorted = <<>> THEN <<p>>
  ELSE IF StrLess(p[1], Head(sorted)[1]) THEN <<p>> \o sorted
  ELSE <<Head(sorted)>> \o InsertSorted(p, Tail(sorted))
RECURSIVE SortProps(_)
SortProps(props) ==
  IF props = <<>> THEN <<>> ELSE InsertSorted(Head(props), SortProps(Tail(props)))
\* JSON.stringify(obj, Object.keys(obj).sort())
JSONStringifySorted(v) == JSONStringify(Obj(SortProps(v.props)))

\* JSON.parse(text).  The grammar covered: an object of string keys whose
\* values are non-negative integers of at most nine digits, strings without
\* escapes, null, or such objects again; or one such value alone.  Any other
\* text is a SyntaxError, reported as ok = FALSE.
IsDigit(c) == c >= 48 /\ c <= 57
ParseFail == [ok |-> FALSE, v |-> Undefined, next |-> 0]

\* The position of the quote that closes a string opened before position i;
\* 0 when a control character or a backslash comes first or there is none.
CloseQuote(s, i) ==
  LET stops == {j \in i..Len(s) : s[j] < 32 \/ s[j] = 92 \/ s[j] = 34}
  IN  IF stops = {} \/ s[SetMin(stops)] # 34 THEN 0 ELSE SetMin(stops)

RECURSIVE DigitsEnd(_, _)
DigitsEnd(s, i) == IF i <= Len(s) /\ IsDigit(s[i]) THEN DigitsEnd(s, i + 1) ELSE i

RECURSIVE DigitsValue(_, _, _)
DigitsValue(s, i, j) ==
  IF j < i THEN 0 ELSE DigitsValue(s, i, j - 1) * 10 + (s[j] - 48)

RECURSIVE ParseValueAt(_, _)
RECURSIVE ParseMembers(_, _, _)
ParseValueAt(s, i) ==
  IF i > Len(s) THEN ParseFail
  ELSE IF s[i] = 34 THEN
    LET j == CloseQuote(s, i + 1)
    IN  IF j = 0 THEN ParseFail
        ELSE [ok |-> TRUE, v |-> Str(SubSeq(s, i + 1, j - 1)), next |-> j + 1]
  ELSE IF IsDigit(s[i]) THEN
    LET j == DigitsEnd(s, i)
    IN  IF j - i > 9 \/ (s[i] = 48 /\ j - i > 1) THEN ParseFail
        ELSE [ok |-> TRUE, v |-> Num(DigitsValue(s, i, j - 1)), next |-> j]
  ELSE IF i + 3 <= Len(s) /\ SubSeq(s, i, i + 3) = <<110, 117, 108, 108>> THEN
    [ok |-> TRUE, v |-> Null, next |-> i + 4]
  ELSE IF s[i] = 123 THEN
    IF i < Len(s) /\ s[i + 1] = 125
      THEN [ok |-> TRUE, v |-> Obj(<<>>), next |-> i + 2]
      ELSE ParseMembers(s, i + 1, <<>>)
  ELSE ParseFail
ParseMembers(s, i, props) ==
  IF i > Len(s) \/ s[i] # 34 THEN ParseFail
  ELSE LET j == CloseQuote(s, i + 1)
       IN  IF j = 0 \/ j + 1 > Len(s) \/ s[j + 1] # 58 THEN ParseFail
           ELSE LET val == ParseValueAt(s, j + 2)
                IN  IF ~val.ok \/ val.next > Len(s) THEN ParseFail
                    ELSE LET more == SetProp(props, SubSeq(s, i + 1, j - 1), val.v)
                         IN  IF s[val.next] = 125
                               THEN [ok |-> TRUE, v |-> Obj(more), next |-> val.next + 1]
                             ELSE IF s[val.next] = 44
                               THEN ParseMembers(s, val.next + 1, more)
                             ELSE ParseFail
JSONParse(text) ==
  LET s == Trim(text)
      r == ParseValueAt(s, 1)
  IN  [ok |-> r.ok /\ r.next = Len(s) + 1, v |-> IF r.ok THEN r.v ELSE Undefined]

(***************************************************************************)
(* Part 5. The QR token verifier (QRVerify) and the signers.               *)
(***************************************************************************)

\* The string literals of the source, as character codes.
Lit ==
  [v1 |-> <<118, 49>>,
   hmac |-> <<104, 109, 97, 99>>,
   dot |-> <<46>>,
   hmacDot |-> <<104, 109, 97, 99, 46>>,
   HMAC |-> <<72, 77, 65, 67>>,
   ECDSA |-> <<69, 67, 68, 83, 65>>,
   RSAPSS |-> <<82, 83, 65, 45, 80, 83, 83>>,
   none |-> <<110, 111, 110, 101>>,
   json |-> <<106, 115, 111, 110>>,
   algorithm |-> <<97, 108, 103, 111, 114, 105, 116, 104, 109>>,
   keyId |-> <<107, 101, 121, 73, 100>>,
   version |-> <<118, 101, 114, 115, 105, 111, 110>>,
   signature |-> <<115, 105, 103, 110, 97, 116, 117, 114, 101>>,
   payload |-> <<112, 97, 121, 108, 111, 97, 100>>,
   timestamp |-> <<116, 105, 109, 101, 115, 116, 97, 109, 112>>,
   day |-> <<100, 97, 121>>,
   answer |-> <<97, 110, 115, 119, 101, 114>>,
   stage |-> <<115, 116, 97, 103, 101>>,
   alg |-> <<97, 108, 103>>,
   typ |-> <<116, 121, 112>>,
   HS256 |-> <<72, 83, 50, 53, 54>>,
   JWT |-> <<74, 87, 84>>,
   winter2025 |-> <<119, 105, 110, 116, 101, 114, 50, 48, 50, 53>>,
   secret |-> <<119, 105, 110, 116, 101, 114, 50, 48, 50, 53, 95, 115, 101, 99, 114, 101, 116, 95, 107, 101, 121, 95, 100, 101, 109, 111, 95, 111, 110, 108, 121>>]

VerificationTimeout == 5000
CacheTimeout == 300000
MaxCacheEntries == 100
MaxPayloadSize == 1024
CleanupPeriod == 60000

\* value || fallback
OrElse(v, fallback) == IF Truthy(v) THEN v ELSE fallback

\* predefinedKeys: key id -> secret.
predefinedKeys == {<<Lit.winter2025, Lit.secret>>}

\* {...props, ...more}
RECURSIVE Spread(_, _)
Spread(props, more) ==
  IF more = <<>> THEN props
  ELSE Spread(SetProp(props, Head(more)[1], Head(more)[2]), Tail(more))

\* String.prototype.toLowerCase on ASCII and Latin-1 letters.
ToLowerCase(s) ==
  [i \in 1..Len(s) |->
     IF (s[i] >= 65 /\ s[i] <= 90) \/ (s[i] >= 192 /\ s[i] <= 222 /\ s[i] # 215)
       THEN s[i] + 32 ELSE s[i]]

\* simpleHash(input) = Math.abs(hash).toString(16) of the 31-hash.
simpleHash(input) == AbsToString(Hash31(input), 16)

\* generateTestQR(data, keyId) at time nowMs; data is the property list.
generateTestQR(data, keyId, nowMs) ==
  LET payload == SetProp(SetProp(SetProp(Spread(<<>>, data), Lit.keyId, Str(keyId)),
                                 Lit.timestamp, Num(nowMs)), Lit.algorithm, Str(Lit.HMAC))
      payloadB64 == Btoa(JSONStringify(Obj(payload)))
  IN  Flatten(<<Lit.hmacDot, keyId, Lit.dot, simpleHash(payloadB64), Lit.dot, payloadB64>>)

\* String.prototype.replace(pattern, replacement) for a string pattern: the
\* first occurrence only.
ReplaceFirst(s, pattern, replacement) ==
  LET at == {i \in 1..(Len(s) - Len(pattern) + 1) : SubSeq(s, i, i + Len(pattern) - 1) = pattern}
  IN  IF at = {} THEN s
      ELSE SubSeq(s, 1, SetMin(at) - 1) \o replacement \o SubSeq(s, SetMin(at) + Len(pattern), Len(s))

\* base64URLEncode(data).  /\\+/g looks for backslashes, which btoa never
\* produces.  `/\\//g` is the regular expression /\\/ divided by the
\* identifier g: a ReferenceError unless the page defines a global g
\* (globalG), and NaN if it does, so that replace() looks for the text
\* "NaN".  ok = FALSE stands for the ReferenceError.
base64URLEncode(data, globalG) ==
  IF ~globalG THEN [ok |-> FALSE, s |-> <<>>]
  ELSE [ok |-> TRUE,
        s |-> SelectSeq(ReplaceFirst(Btoa(data), <<78, 97, 78>>, <<95>>), LAMBDA c : c # 61)]

\* createSignature(data) with the bytes that signing returned: ecdsaSign
\* fails ('raw' import of a private key), hmacSHA256 returns a Uint8Array,
\* so the header says HS256.  ok = FALSE: the promise is rejected.
createSignature(day, answer, stage, releaseTime, additionalData, signature, globalG) ==
  LET payload == Obj(Spread(<< <<Lit.day, Num(day)>>, <<Lit.answer, Str(Trim(ToLowerCase(answer)))>>,
                               <<Lit.stage, Num(stage)>>, <<Lit.timestamp, Str(releaseTime)>> >>,
                            additionalData))
      payloadString == JSONStringifySorted(payload)
      header == Obj(<< <<Lit.alg, Str(Lit.HS256)>>, <<Lit.typ, Str(Lit.JWT)>> >>)
      encodedHeader == base64URLEncode(JSONStringify(header), globalG)
      encodedPayload == base64URLEncode(payloadString, globalG)
      encodedSignature == base64URLEncode(signature, globalG)
  IN  IF ~encodedHeader.ok \/ ~encodedPayload.ok \/ ~encodedSignature.ok
        THEN [ok |-> FALSE, token |-> <<>>]
        ELSE [ok |-> TRUE,
              token |-> Flatten(<<Lit.v1, Lit.dot, encodedHeader.s, Lit.dot, encodedPayload.s,
                                  Lit.dot, encodedSignature.s>>)]


\* validateQRInput(qrData), qrData any JavaScript value.
validateQRInput(qrData) ==
  IF ~Truthy(qrData) \/ qrData.t # "str"
    THEN [valid |-> FALSE, error |-> "QR-Daten fehlen oder sind ungueltig"]
  ELSE IF Len(qrData.s) > MaxPayloadSize THEN [valid |-> FALSE, error |-> "QR-Code zu gross"]
  ELSE IF Len(Trim(qrData.s)) = 0 THEN [valid |-> FALSE, error |-> "QR-Code ist leer"]
  ELSE [valid |-> TRUE, error |-> ""]

\* A parser's return value: the parsed token, or null (ok = FALSE).
ParsedNull ==
  [ok |-> FALSE, version |-> Null, algorithm |-> Null, keyId |-> Null, signature |-> Null,
   payload |-> Null, originalData |-> <<>>]
Parsed(version, algorithm, keyId, signature, payload, originalData) ==
  [ok |-> TRUE, version |-> version, algorithm |-> algorithm, keyId |-> keyId,
   signature |-> signature, payload |-> payload, originalData |-> originalData]

\* JSON.parse(atob(text)): ok = FALSE when either throws.
ParseB64Json(text) == IF AtobThrows(text) THEN [ok |-> FALSE, v |-> Undefined] ELSE JSONParse(Atob(text))

\* qrData.match(/^v1\.([A-Za-z0-9+\/=]+)\.([A-Za-z0-9+\/=]+)$/): the groups,
\* or <<>> when there is no match.  The class has no '.', so the match is the
\* split at the dots.
matchV1(qrData) ==
  LET parts == Split(qrData, 46)
      InClass(p) == p # <<>> /\ \A i \in 1..Len(p) : IsB64Char(p[i]) \/ p[i] = 61
  IN  IF Len(parts) = 3 /\ parts[1] = Lit.v1 /\ InClass(parts[2]) /\ InClass(parts[3])
        THEN <<parts[2], parts[3]>> ELSE <<>>

parseV1Format(signatureB64, payloadB64) ==
  LET json == ParseB64Json(payloadB64)
  IN  IF AtobThrows(signatureB64) \/ ~json.ok \/ PropThrows(json.v) THEN ParsedNull
      ELSE Parsed(Str(<<49, 46, 48>>), OrElse(Prop(json.v, Lit.algorithm), Str(Lit.HMAC)),
                  OrElse(Prop(json.v, Lit.keyId), Str(Lit.winter2025)),
                  Str(Atob(signatureB64)), json.v, payloadB64)

parseHMACFormat(qrData) ==
  LET parts == Split(qrData, 46)
  IN  IF Len(parts) # 4 THEN ParsedNull
      ELSE LET json == ParseB64Json(parts[4])
           IN  IF ~json.ok THEN ParsedNull
               ELSE Parsed(Str(Lit.hmac), Str(Lit.HMAC), Str(parts[2]), Str(parts[3]), json.v, parts[4])

parseSimpleFormat(qrData) ==
  LET json == JSONParse(qrData)
  IN  IF ~json.ok THEN ParsedNull
      ELSE Parsed(Str(<<115, 105, 109, 112, 108, 101>>), Str(Lit.none), Null, Null, json.v, qrData)

\* parseJSONFormat(parsed); reading a property of null throws.
parseJSONFormat(parsed) ==
  IF PropThrows(parsed) THEN ParsedNull
  ELSE Parsed(OrElse(Prop(parsed, Lit.version), Str(Lit.json)),
              OrElse(Prop(parsed, Lit.algorithm), Str(Lit.none)),
              OrElse(Prop(parsed, Lit.keyId), Null),
              OrElse(Prop(parsed, Lit.signature), Null),
              OrElse(Prop(parsed, Lit.payload), parsed),
              JSONStringify(parsed))

\* parseQRCode(qrData) for a string: the formats in the order of the code.
parseQRCode(qrData) ==
  LET v1Match == matchV1(qrData)
  IN  IF v1Match # <<>> THEN parseV1Format(v1Match[1], v1Match[2])
      ELSE IF StartsWith(qrData, Lit.hmacDot) THEN parseHMACFormat(qrData)
      ELSE IF StartsWith(qrData, <<123>>) /\ EndsWith(qrData, <<125>>) THEN parseSimpleFormat(qrData)
      ELSE LET json == ParseB64Json(qrData)
           IN  IF json.ok THEN parseJSONFormat(json.v) ELSE ParsedNull

\* validateExpectedData(payload, expectedData): the error, "" when valid.
RECURSIVE validateExpectedFrom(_, _, _)
validateExpectedFrom(payload, expected, i) ==
  IF i > Len(expected) THEN [valid |-> TRUE, error |-> ""]
  ELSE IF Prop(payload, expected[i][1]) = Undefined
    THEN [valid |-> FALSE, error |-> "Erforderliches Feld fehlt"]
  ELSE IF expected[i][2] # Null /\ Prop(payload, expected[i][1]) # expected[i][2]
    THEN [valid |-> FALSE, error |-> "Feld: erwartet, erhalten"]
  ELSE validateExpectedFrom(payload, expected, i + 1)
validateExpectedData(payload, expectedData) ==
  IF ~Truthy(expectedData) \/ expectedData.props = <<>> THEN [valid |-> TRUE, error |-> ""]
  ELSE validateExpectedFrom(payload, expectedData.props, 1)

\* simpleHashCompare(input, expected): (hash >>> 0).toString(16) === expected.
simpleHashCompare(input, expected) ==
  LET hash == Fnv1a(input) IN Str(ToRadix(hash[1], hash[2], 16)) = expected

\* getCacheKey(qrData) = hash.toString(36) of the signed 31-hash.
getCacheKey(qrData) == SignedToString(Hash31(qrData), 36)


\* The payload document {day: 2, kind: "stage2"} that the tokens carry.
PayloadDoc == << <<Lit.day, Num(2)>>, <<<<107, 105, 110, 100>>, Str(<<115, 116, 97, 103, 101, 50>>)>> >>
PayloadB64 == Btoa(JSONStringify(Obj(PayloadDoc)))
FnvHex(input) == LET hash == Fnv1a(input) IN ToRadix(hash[1], hash[2], 16)
HmacToken(keyId, signatureHex) == Flatten(<<Lit.hmacDot, keyId, Lit.dot, signatureHex, Lit.dot, PayloadB64>>)
V1Token(signature, payload) == Flatten(<<Lit.v1, Lit.dot, Btoa(signature), Lit.dot, Btoa(JSONStringify(Obj(payload)))>>)

\* The values handed to verifyQRCode as qrData.  hmacCollide is hmacFnv with
\* two neighbouring signature characters changed so that 31 * c1 + c2, and
\* with it the 31-hash of the whole string, stays the same.  hmacSha carries
\* the HMAC-SHA256 digest of PayloadB64 under the secret; signer the digest
\* of its payload string.  v1BadPayload and hmacBadPayload carry the base64
\* of "not json" as their payload segment, hmacThreeFields lacks a field.
QRInputs ==
  [nul |-> Null,
   num |-> Num(42),
   empty |-> Str(<<>>),
   blank |-> Str(<<32, 32>>),
   oversized |-> Str([i \in 1..(MaxPayloadSize + 1) |-> 65]),
   garbage |-> Str(<<110, 111, 32, 116, 111, 107, 101, 110>>),
   hmacFnv |-> Str(HmacToken(Lit.winter2025, FnvHex(Lit.secret \o PayloadB64))),
   hmacCollide |-> Str([HmacToken(Lit.winter2025, FnvHex(Lit.secret \o PayloadB64))
                          EXCEPT ![21] = @ + 1, ![22] = @ - 31]),
   hmacSha |-> Str(HmacToken(Lit.winter2025, <<57, 100, 51, 97, 50, 54, 100, 97, 56, 56, 56, 50, 53, 100, 49, 51, 55, 54, 51, 53, 56, 50, 97, 54, 100, 55, 55, 99, 100, 57, 97, 98, 101, 97, 102, 99, 98, 101, 99, 54, 101, 99, 101, 98, 49, 99, 52, 52, 52, 57, 101, 97, 50, 55, 51, 101, 57, 99, 56, 51, 97, 53, 101, 53>>)),
   hmacOtherKey |-> Str(HmacToken(Lit.winter2025, FnvHex(<<97, 110, 111, 116, 104, 101, 114, 95, 115, 101, 99, 114, 101, 116>> \o PayloadB64))),
   hmacUnknownKid |-> Str(HmacToken(<<115, 117, 109, 109, 101, 114, 50, 48, 50, 54>>, FnvHex(Lit.secret \o PayloadB64))),
   simpleJson |-> Str(JSONStringify(Obj(PayloadDoc))),
   b64Json |-> Str(PayloadB64),
   v1Fnv |-> Str(V1Token(FnvHex(Lit.secret \o PayloadB64), PayloadDoc)),
   v1None |-> Str(V1Token(<<120>>, Append(PayloadDoc, <<Lit.algorithm, Str(Lit.none)>>))),
   v1Ecdsa |-> Str(V1Token(<<120>>, Append(PayloadDoc, <<Lit.algorithm, Str(Lit.ECDSA)>>))),
   signer |-> Str(createSignature(2, <<83, 116, 101, 114, 110, 32>>, 2, <<50, 48, 50, 53, 45, 49, 50, 45, 48, 50, 84, 48, 57, 58, 48, 48>>, <<>>,
                    <<92, 247, 157, 27, 41, 224, 133, 110, 26, 200, 106, 160, 28, 254, 121, 204, 140, 126, 210, 178, 170, 155, 210, 75, 221, 165, 240, 49, 24, 4, 105, 0>>, TRUE).token),
   testQR |-> Str(generateTestQR(PayloadDoc, Lit.winter2025, 0)),
   v1BadPayload |-> Str(Flatten(<<Lit.v1, Lit.dot, Btoa(<<120>>), Lit.dot, Btoa(<<110, 111, 116, 32, 106, 115, 111, 110>>)>>)),
   hmacBadPayload |-> Str(Flatten(<<Lit.hmacDot, Lit.winter2025, Lit.dot, <<97, 98, 99>>, Lit.dot, Btoa(<<110, 111, 116, 32, 106, 115, 111, 110>>)>>)),
   hmacThreeFields |-> Str(Flatten(<<Lit.hmacDot, Lit.winter2025, Lit.dot, PayloadB64>>))]

\* The values handed to verifyQRCode as expectedData.
ExpectedContexts ==
  [none |-> Obj(<<>>), day2 |-> Obj(<< <<Lit.day, Num(2)>> >>), day3 |-> Obj(<< <<Lit.day, Num(3)>> >>)]

\* publicKeys.get(keyId): the secrets stored under the key id.
KeyData(keys, keyId) == {k[2] : k \in {p \in keys : Str(p[1]) = keyId}}

\* crypto.subtle.sign('HMAC', key, data) as lower-case hex for the secret of
\* predefinedKeys: <<data, HMAC-SHA256 digest>> for the payload segments of
\* hmacFnv (and the tokens that share it), v1None and v1Ecdsa.
HmacSha256Hex ==
  { <<<<101, 121, 74, 107, 89, 88, 107, 105, 79, 106, 73, 115, 73, 109, 116, 112, 98, 109, 81,
      105, 79, 105, 74, 122, 100, 71, 70, 110, 90, 84, 73, 105, 102, 81, 61, 61>>,
     <<57, 100, 51, 97, 50, 54, 100, 97, 56, 56, 56, 50, 53, 100, 49, 51, 55, 54, 51, 53, 56,
     50, 97, 54, 100, 55, 55, 99, 100, 57, 97, 98, 101, 97, 102, 99, 98, 101, 99, 54, 101, 99,
     101, 98, 49, 99, 52, 52, 52, 57, 101, 97, 50, 55, 51, 101, 57, 99, 56, 51, 97, 53, 101,
     53>>>>,
    <<<<101, 121, 74, 107, 89, 88, 107, 105, 79, 106, 73, 115, 73, 109, 116, 112, 98, 109, 81,
      105, 79, 105, 74, 122, 100, 71, 70, 110, 90, 84, 73, 105, 76, 67, 74, 104, 98, 71, 100,
      118, 99, 109, 108, 48, 97, 71, 48, 105, 79, 105, 74, 117, 98, 50, 53, 108, 73, 110, 48,
      61>>,
     <<56, 97, 53, 55, 52, 51, 56, 53, 55, 97, 52, 50, 101, 52, 55, 49, 50, 98, 54, 52, 50,
     97, 101, 51, 48, 48, 52, 49, 102, 52, 99, 51, 98, 98, 49, 52, 56, 100, 55, 99, 51, 48,
     48, 49, 57, 48, 52, 99, 52, 97, 52, 53, 55, 101, 54, 51, 52, 98, 57, 56, 101, 56, 50,
     97>>>>,
    <<<<101, 121, 74, 107, 89, 88, 107, 105, 79, 106, 73, 115, 73, 109, 116, 112, 98, 109, 81,
      105, 79, 105, 74, 122, 100, 71, 70, 110, 90, 84, 73, 105, 76, 67, 74, 104, 98, 71, 100,
      118, 99, 109, 108, 48, 97, 71, 48, 105, 79, 105, 74, 70, 81, 48, 82, 84, 81, 83, 74,
      57>>,
     <<54, 52, 98, 57, 57, 51, 53, 49, 50, 56, 55, 101, 99, 49, 53, 102, 101, 57, 99, 102, 97,
     53, 48, 100, 52, 53, 97, 48, 56, 48, 102, 54, 50, 57, 51, 55, 54, 48, 54, 48, 99, 101,
     56, 100, 54, 99, 97, 50, 56, 98, 100, 102, 57, 98, 55, 54, 97, 101, 49, 50, 100, 53, 102,
     51>>>> }

\* A verification result { valid, error, algorithm, keyId, payload,
\* timestamp }; a field the code leaves out is "" (algorithm) or undefined.
\* NoResult stands for "no result yet".
Result(valid, error, algorithm, keyId, payload, timestamp) ==
  [valid |-> valid, error |-> error, algorithm |-> algorithm, keyId |-> keyId,
   payload |-> payload, timestamp |-> timestamp]
NoResult == Result(FALSE, "", "", Undefined, Undefined, 0)
\* The catch block's { valid: false, error: error.message, timestamp }.
ErrorResult(message, timestamp) == Result(FALSE, message, "", Undefined, Undefined, timestamp)

verifyPlaintext(parsed, expectedData, t) ==
  LET dataValid == validateExpectedData(parsed.payload, expectedData)
  IN  Result(dataValid.valid, dataValid.error, "plaintext", Null, parsed.payload, t)

\* keyData.key is read off the one entry of keyData.
verifyHMACFallback(parsed, keyData, expectedData, t) ==
  LET isValid == \E key \in keyData : simpleHashCompare(key \o parsed.originalData, parsed.signature)
      dataValid == validateExpectedData(parsed.payload, expectedData)
  IN  Result(isValid /\ dataValid.valid,
             IF isValid THEN dataValid.error ELSE "Ungueltige Signatur (Fallback)",
             "HMAC-Fallback", parsed.keyId, parsed.payload, t)

\* verifyHMACWebCrypto after importKey: the key was imported for KeyUsages,
\* and crypto.subtle.sign rejects a key whose usages lack "sign"; verifyHMAC
\* catches the rejection and returns its error result.
KeyUsages == {"verify"}
verifyHMACWebCrypto(parsed, expectedData, t) ==
  IF "sign" \notin KeyUsages
    THEN Result(FALSE, "InvalidAccessError", "HMAC", parsed.keyId, Undefined, t)
  ELSE LET expectedHex == (CHOOSE p \in HmacSha256Hex : p[1] = parsed.originalData)[2]
           isValid == parsed.signature = Str(expectedHex)
           dataValid == validateExpectedData(parsed.payload, expectedData)
       IN  Result(isValid /\ dataValid.valid,
                  IF isValid THEN dataValid.error ELSE "Ungueltige Signatur",
                  "HMAC", parsed.keyId, parsed.payload, t)

\* What the promise of verifySignature is when verifySignature returns:
\* fulfilled with a result, rejected with an error, or waiting for the Web
\* Crypto API ("crypto").
Outcome(kind, result, error) == [kind |-> kind, result |-> result, error |-> error]
NoOutcome == Outcome("none", NoResult, "")

\* verifyHMAC without the lookup of the key id.
verifyHMACNoKeyCheck(parsed, expectedData, keys, subtle, t) ==
  IF subtle THEN Outcome("crypto", NoResult, "")
  ELSE Outcome("fulfilled", verifyHMACFallback(parsed, KeyData(keys, parsed.keyId), expectedData, t), "")
verifyHMAC(parsed, expectedData, keys, subtle, t) ==
  IF KeyData(keys, parsed.keyId) = {}
    THEN Outcome("fulfilled", Result(FALSE, "Unbekannte Key-ID", "HMAC", parsed.keyId, Undefined, t), "")
  ELSE IF subtle THEN Outcome("crypto", NoResult, "")
  ELSE Outcome("fulfilled", verifyHMACFallback(parsed, KeyData(keys, parsed.keyId), expectedData, t), "")

\* verifyECDSA and verifyRSAPSS are not defined: calling them is a TypeError.
verifySignature(parsed, expectedData, keys, subtle, t) ==
  IF parsed.algorithm = Str(Lit.HMAC) THEN verifyHMAC(parsed, expectedData, keys, subtle, t)
  ELSE IF parsed.algorithm \in {Str(Lit.ECDSA), Str(Lit.RSAPSS)}
    THEN Outcome("rejected", NoResult, "TypeError: not a function")
  ELSE IF parsed.algorithm = Str(Lit.none)
    THEN Outcome("fulfilled", verifyPlaintext(parsed, expectedData, t), "")
  ELSE Outcome("rejected", NoResult, "Ununterstuetzter Algorithmus")

\* The verification cache, a Map in insertion order: a sequence of entries
\* [key, result, timestamp] with distinct keys.
MapSet(cache, key, result, timestamp) ==
  LET entry == [key |-> key, result |-> result, timestamp |-> timestamp]
  IN  IF \E i \in 1..Len(cache) : cache[i].key = key
        THEN [i \in 1..Len(cache) |-> IF cache[i].key = key THEN entry ELSE cache[i]]
        ELSE Append(cache, entry)

\* Deleting the first `count` entries of entries.sort(by timestamp), a stable
\* sort: each time the earliest entry with the least timestamp.
RECURSIVE RemoveOldest(_, _)
RemoveOldest(cache, count) ==
  IF count = 0 \/ cache = <<>> THEN cache
  ELSE LET least == SetMin({cache[i].timestamp : i \in 1..Len(cache)})
           first == SetMin({i \in 1..Len(cache) : cache[i].timestamp = least})
       IN  RemoveOldest(SubSeq(cache, 1, first - 1) \o SubSeq(cache, first + 1, Len(cache)), count - 1)

cacheVerificationResult(cache, key, result, t) ==
  MapSet(IF Len(cache) >= MaxCacheEntries
           THEN RemoveOldest(cache, (MaxCacheEntries * 2) \div 10) ELSE cache,
         key, result, t)

\* One call of verifyQRCode: its arguments, its local `parsed`, the state of
\* its promise, of the verification it awaits (op), of the Promise.race of
\* withTimeout, of the timer of withTimeout, and what checkRateLimit
\* answered when it was asked.
NewCall(qrData, expectedData, t) ==
  [qrData |-> qrData, expectedData |-> expectedData, parsed |-> ParsedNull, startedAt |-> t,
   status |-> "pending", result |-> NoResult, fromCache |-> FALSE, returnedAt |-> 0,
   op |-> "none", outcome |-> NoOutcome, race |-> "none", timer |-> "none",
   rateLimit |-> "unasked"]
Returned(call, result, t) ==
  [call EXCEPT !.status = "returned", !.result = result, !.returnedAt = t]
\* The catch block of verifyQRCode: with window.SecurityStatic present it
\* evaluates qrData.substring(0, 50), a TypeError when qrData is no string,
\* which leaves the async function as a rejected promise.
Caught(call, message, t, security) ==
  IF security /\ call.qrData.t # "str"
    THEN [call EXCEPT !.status = "rejected", !.returnedAt = t]
    ELSE Returned(call, ErrorResult(message, t), t)

\* withTimeout: Promise.race is decided by the first settlement only.
withTimeoutLastWins(race) == TRUE
withTimeout(race) == race = "open"


(***************************************************************************)
(* Part 6. The verifier as a state machine.  A session fixes the page's    *)
(* environment (window.crypto.subtle and window.SecurityStatic present or  *)
(* not) and the verifyQRCode calls the page makes, in their order; calls   *)
(* may overlap.  clock is Date.now() in milliseconds since page load.      *)
(***************************************************************************)

Scripts ==
  { << <<QRInputs.hmacFnv, ExpectedContexts.day2>>, <<QRInputs.hmacFnv, ExpectedContexts.day3>> >>,
    << <<QRInputs.hmacFnv, ExpectedContexts.none>>, <<QRInputs.hmacCollide, ExpectedContexts.none>> >>,
    << <<QRInputs.simpleJson, ExpectedContexts.day2>>, <<QRInputs.simpleJson, ExpectedContexts.day3>>, <<QRInputs.b64Json, ExpectedContexts.none>> >>,
    << <<QRInputs.v1None, ExpectedContexts.day2>>, <<QRInputs.v1Fnv, ExpectedContexts.day2>>, <<QRInputs.v1Ecdsa, ExpectedContexts.none>> >>,
    << <<QRInputs.signer, ExpectedContexts.day2>>, <<QRInputs.testQR, ExpectedContexts.day2>> >>,
    << <<QRInputs.nul, ExpectedContexts.none>>, <<QRInputs.num, ExpectedContexts.none>>, <<QRInputs.empty, ExpectedContexts.none>> >>,
    << <<QRInputs.blank, ExpectedContexts.none>>, <<QRInputs.oversized, ExpectedContexts.none>>, <<QRInputs.garbage, ExpectedContexts.none>> >>,
    << <<QRInputs.hmacSha, ExpectedContexts.day2>>, <<QRInputs.hmacSha, ExpectedContexts.day2>>, <<QRInputs.hmacSha, ExpectedContexts.day3>> >>,
    << <<QRInputs.hmacOtherKey, ExpectedContexts.none>>, <<QRInputs.hmacUnknownKid, ExpectedContexts.none>>, <<QRInputs.hmacFnv, ExpectedContexts.day2>> >>,
    << <<QRInputs.v1BadPayload, ExpectedContexts.none>>, <<QRInputs.hmacBadPayload, ExpectedContexts.day2>>, <<QRInputs.hmacThreeFields, ExpectedContexts.none>> >> }
Sessions == [subtle : BOOLEAN, security : BOOLEAN, script : Scripts]

\* Time passes in steps of TickStep while the Web Crypto API is at work, and
\* up to the next timer otherwise; a session is followed until MaxClock.
TickStep == 2500
MaxClock == 70000

\* The time gate at rest while the verifier runs, and the verifier at rest
\* while the time gate runs.
TimeIdle ==
  /\ now = 0 /\ devTestUnlock = DevTestUnlockFixed /\ wrTimeLoaded = TRUE /\ doorCheck = NoCheck
QRIdle ==
  /\ clock = 0 /\ session = [subtle |-> FALSE, security |-> FALSE, script |-> <<>>]
  /\ publicKeys = {} /\ nextCleanup = 0 /\ verificationCache = <<>> /\ calls = <<>>

\* AnswersStore and AnswerUtil at rest: no submission, the shipped cache
\* configuration, an empty cache; no stage-2 handler of the page at work.
AnswerCacheMaxEntries == 50
AnswerCacheTtl == 300000
NoSubmission == [stage |-> "idle"]
NoStage2 == [flow |-> "idle"]
\* ModalConfirm after its constructor: no modal shown, none waiting, no
\* promise handed out, no close animation running, an empty container.
NoModal ==
  [activeModal |-> 0, modalQueue |-> <<>>, promises |-> <<>>, closing |-> <<>>,
   container |-> {}, unhandledRejections |-> 0, closedAll |-> {}]
AnswerIdle ==
  /\ submission = NoSubmission
  /\ cacheConfig = [maxEntries |-> AnswerCacheMaxEntries, ttl |-> AnswerCacheTtl]
  /\ answerCache = <<>> /\ answerCalls = <<>>
  /\ stage2 = NoStage2
  /\ modalConfirm = NoModal

QRInit ==
  /\ TimeIdle
  /\ AnswerIdle
  /\ clock = 0
  /\ session \in Sessions
  /\ publicKeys = {}
  /\ nextCleanup = 0
  /\ verificationCache = <<>>
  /\ calls = <<>>

\* A continuation waits in the microtask queue: it runs before any timer or
\* Web Crypto completion.
MicrotaskPending == \E i \in 1..Len(calls) : calls[i].status = "pending" /\ calls[i].op = "ready"

\* init(): loadPredefinedKeys() and startCacheCleanup().
init ==
  /\ publicKeys = {}
  /\ publicKeys' = predefinedKeys
  /\ nextCleanup' = clock + CleanupPeriod
  /\ UNCHANGED <<modalConfirm, clock, session, verificationCache, calls, timeVars, answerVars>>

\* verifyQRCode(qrData, expectedData) up to its first await, or to its
\* return when it does not get there; rateOk is what checkRateLimit answers.
CacheHits(cache, cacheKey, t) ==
  {i \in 1..Len(cache) : cache[i].key = cacheKey /\ t - cache[i].timestamp < CacheTimeout}
verifyQRCodeSync(qrData, expectedData, rateOk) ==
  LET call == [NewCall(qrData, expectedData, clock) EXCEPT
                 !.rateLimit = IF ~session.security THEN "unasked"
                               ELSE IF rateOk THEN "allowed" ELSE "denied"]
      validation == validateQRInput(qrData)
  IN  IF ~session.security
        THEN Caught(call, "TypeError: window.SecurityStatic is undefined", clock, FALSE)
      ELSE IF ~rateOk THEN Caught(call, "Rate-Limit fuer QR-Scans ueberschritten", clock, TRUE)
      ELSE IF ~validation.valid
        THEN Caught(call, "Ungueltiger QR-Code: " \o validation.error, clock, TRUE)
      ELSE LET hits == CacheHits(verificationCache, getCacheKey(qrData.s), clock)
           IN  IF hits # {}
                 THEN [Returned(call, verificationCache[SetMin(hits)].result, clock)
                         EXCEPT !.fromCache = TRUE]
               ELSE LET parsed == parseQRCode(qrData.s)
                    IN  IF ~parsed.ok THEN Caught(call, "QR-Code-Format nicht erkannt", clock, TRUE)
                        ELSE LET o == verifySignature(parsed, expectedData, publicKeys,
                                                      session.subtle, clock)
                             IN  [call EXCEPT !.parsed = parsed,
                                              !.op = IF o.kind = "crypto" THEN "importKey" ELSE "ready",
                                              !.outcome = o, !.race = "open", !.timer = "armed"]

verifyQRCode ==
  /\ Len(calls) < Len(session.script)
  /\ \E rateOk \in BOOLEAN :
       calls' = Append(calls, verifyQRCodeSync(session.script[Len(calls) + 1][1],
                                               session.script[Len(calls) + 1][2], rateOk))
  /\ UNCHANGED <<modalConfirm, clock, session, publicKeys, nextCleanup, verificationCache, timeVars, answerVars>>

\* verifyQRCode after `await performVerification(...)` when verifySignature
\* settled without the Web Crypto API: cache and return the result, or catch.
verifyQRCodeResume ==
  \E i \in 1..Len(calls) :
    /\ calls[i].status = "pending" /\ calls[i].op = "ready"
    /\ IF calls[i].outcome.kind = "fulfilled"
         THEN /\ verificationCache' = cacheVerificationResult(verificationCache,
                   getCacheKey(calls[i].qrData.s), calls[i].outcome.result, clock)
              /\ calls' = [calls EXCEPT ![i] =
                   [Returned(@, @.outcome.result, clock) EXCEPT !.op = "done", !.race = "settled"]]
         ELSE /\ verificationCache' = verificationCache
              /\ calls' = [calls EXCEPT ![i] =
                   [Caught(@, @.outcome.error, clock, session.security)
                      EXCEPT !.op = "done", !.race = "settled"]]
    /\ UNCHANGED <<modalConfirm, clock, session, publicKeys, nextCleanup, timeVars, answerVars>>

\* crypto.subtle.importKey resolves; verifyHMACWebCrypto calls sign.
importKeyResolves ==
  \E i \in 1..Len(calls) :
    /\ calls[i].op = "importKey" /\ ~MicrotaskPending
    /\ calls' = [calls EXCEPT ![i].op = "sign"]
    /\ UNCHANGED <<modalConfirm, clock, session, publicKeys, nextCleanup, verificationCache, timeVars, answerVars>>

\* crypto.subtle.sign settles: verifyHMAC returns its result.  If the race of
\* withTimeout is still open, verifyQRCode caches and returns it.
signSettles ==
  \E i \in 1..Len(calls) :
    /\ calls[i].op = "sign" /\ ~MicrotaskPending
    /\ LET result == verifyHMACWebCrypto(calls[i].parsed, calls[i].expectedData, clock)
       IN  IF withTimeout(calls[i].race)
             THEN /\ verificationCache' = cacheVerificationResult(verificationCache,
                       getCacheKey(calls[i].qrData.s), result, clock)
                  /\ calls' = [calls EXCEPT ![i] =
                       [Returned(@, result, clock) EXCEPT !.op = "done", !.race = "settled"]]
             ELSE /\ verificationCache' = verificationCache
                  /\ calls' = [calls EXCEPT ![i].op = "done"]
    /\ UNCHANGED <<modalConfirm, clock, session, publicKeys, nextCleanup, timeVars, answerVars>>

\* The timer of withTimeout fires (it is never cleared).  If the race is
\* still open, performVerification throws 'Verifikation-Timeout' and the
\* catch block of verifyQRCode returns the error result.
timeoutFires ==
  \E i \in 1..Len(calls) :
    /\ calls[i].timer = "armed" /\ clock = calls[i].startedAt + VerificationTimeout
    /\ ~MicrotaskPending
    /\ calls' = [calls EXCEPT ![i] =
         IF withTimeout(@.race)
           THEN [Caught(@, "Verifikation-Timeout", clock, session.security)
                   EXCEPT !.race = "settled", !.timer = "fired"]
           ELSE [@ EXCEPT !.timer = "fired"]]
    /\ UNCHANGED <<modalConfirm, clock, session, publicKeys, nextCleanup, verificationCache, timeVars, answerVars>>

\* The setInterval callback of startCacheCleanup.
cacheCleanup ==
  /\ publicKeys # {} /\ clock = nextCleanup /\ ~MicrotaskPending
  /\ verificationCache' = SelectSeq(verificationCache, LAMBDA en : ~(clock - en.timestamp > CacheTimeout))
  /\ nextCleanup' = clock + CleanupPeriod
  /\ UNCHANGED <<modalConfirm, clock, session, publicKeys, calls, timeVars, answerVars>>

\* Time passes, never past a timer that is due.
DueTimes ==
  {calls[i].startedAt + VerificationTimeout : i \in {j \in 1..Len(calls) : calls[j].timer = "armed"}}
    \cup (IF publicKeys # {} THEN {nextCleanup} ELSE {})
QRTick ==
  /\ ~MicrotaskPending
  /\ \E t \in {clock + TickStep, clock + CleanupPeriod} \cup DueTimes :
       /\ t > clock /\ t <= MaxClock
       /\ \A d \in DueTimes : clock < d /\ t <= d
       /\ \/ t \in DueTimes
          \/ /\ t = clock + TickStep
             /\ \E i \in 1..Len(calls) : calls[i].status = "pending" /\ calls[i].op \in {"importKey", "sign"}
          \/ t = clock + CleanupPeriod /\ DueTimes = {}
       /\ clock' = t
  /\ UNCHANGED <<modalConfirm, session, publicKeys, nextCleanup, verificationCache, calls, timeVars, answerVars>>

QRNext ==
  \/ init
  \/ verifyQRCode
  \/ verifyQRCodeResume
  \/ importKeyResolves
  \/ signSettles
  \/ timeoutFires
  \/ cacheCleanup
  \/ QRTick

SpecQR == QRInit /\ [][QRNext]_vars

TimeStart == TimeInit /\ QRIdle /\ AnswerIdle
SpecTime == TimeStart /\ [][TimeNext]_vars

(***************************************************************************)
(* Part 7. The statements about the verifier.                              *)
(***************************************************************************)

ReturnedCalls == {i \in 1..Len(calls) : calls[i].status = "returned"}
\* The calls that got as far as verification: not refused for a missing
\* SecurityStatic, by the rate limit, for a key id without a key, or by the
\* timeout.
Admitted(call) ==
  call.result.error \notin {"TypeError: window.SecurityStatic is undefined",
                            "Rate-Limit fuer QR-Scans ueberschritten",
                            "Unbekannte Key-ID", "Verifikation-Timeout"}
\* A token of the call, as parseQRCode reads it.
TokenOf(call) == IF validateQRInput(call.qrData).valid THEN parseQRCode(call.qrData.s) ELSE ParsedNull
\* The signature of a parsed token is the keyed hash of its payload segment
\* under the secret of its key id: HMAC-SHA256 where the Web Crypto API is
\* present, the hash of simpleHashCompare where it is not.
KeyedHashMatches(parsed, subtle) ==
  IF subtle
    THEN KeyData(predefinedKeys, parsed.keyId) # {}
         /\ \E p \in HmacSha256Hex : p[1] = parsed.originalData /\ Str(p[2]) = parsed.signature
    ELSE \E key \in KeyData(predefinedKeys, parsed.keyId) :
           simpleHashCompare(key \o parsed.originalData, parsed.signature)
\* What a verification of the call's arguments that does not consult the
\* cache finds now: VALID or not.
FreshValid(call) ==
  LET parsed == TokenOf(call)
      o == verifySignature(parsed, call.expectedData, publicKeys, session.subtle, clock)
  IN  /\ parsed.ok
      /\ IF o.kind = "crypto" THEN verifyHMACWebCrypto(parsed, call.expectedData, clock).valid
         ELSE o.kind = "fulfilled" /\ o.result.valid

\* C1: a keyed-hash token is returned VALID only when its signature equals
\* the keyed hash of its payload segment under the secret of its key id.
C1_ValidOnlyWithKeyedHash ==
  \A i \in ReturnedCalls :
    (calls[i].result.valid /\ TokenOf(calls[i]).algorithm = Str(Lit.HMAC))
      => KeyedHashMatches(TokenOf(calls[i]), session.subtle)

\* C2: when the decoded payload of the token does not match the expected
\* context of the call, the result is not VALID.
C2_ContextMismatchRejected ==
  \A i \in ReturnedCalls :
    calls[i].result.valid
      => validateExpectedData(TokenOf(calls[i]).payload, calls[i].expectedData).valid

\* C3: a result served from the cache is VALID exactly when a verification
\* of the same token and expected context without the cache is.
C3_CacheHitEqualsFresh ==
  \A i \in ReturnedCalls :
    (calls[i].fromCache /\ calls[i].returnedAt = clock)
      => (calls[i].result.valid <=> FreshValid(calls[i]))

\* C4: the verifier has no switch that enables plaintext tokens, so no
\* token of algorithm 'none' is ever returned VALID.
C4_PlaintextNeedsOptIn ==
  \A i \in ReturnedCalls :
    calls[i].result.valid => TokenOf(calls[i]).algorithm # Str(Lit.none)

\* C5: the token of createSignature and the token of generateTestQR for the
\* payload of day 2, verified with the matching expected context and the
\* signing key loaded, are returned VALID.
C5_SignerRoundTrip ==
  \A i \in ReturnedCalls :
    (/\ calls[i].qrData \in {QRInputs.signer, QRInputs.testQR}
     /\ calls[i].expectedData = ExpectedContexts.day2
     /\ Admitted(calls[i]))
      => calls[i].result.valid

\* C9: verifyQRCode completes with a result object for every input; its
\* promise is never rejected.
C9_NeverRejects == \A i \in 1..Len(calls) : calls[i].status # "rejected"

\* C10: a call whose verification has not completed when the timeout of
\* VerificationTimeout elapses returns the timeout error result at that
\* moment without touching the cache; no call stays pending beyond that
\* moment; and the completion of the abandoned operation changes neither
\* the returned result nor the cache.
TimedOut(call) == call.status = "returned" /\ call.result.error = "Verifikation-Timeout"
C10_TimeoutStep ==
  \A i \in 1..Len(calls) :
    /\ (calls[i].status = "pending" /\ calls[i].timer = "armed" /\ calls'[i].timer = "fired")
         => /\ TimedOut(calls'[i])
            /\ ~calls'[i].result.valid
            /\ calls'[i].returnedAt = calls[i].startedAt + VerificationTimeout
            /\ calls'[i].returnedAt = clock
            /\ verificationCache' = verificationCache
    /\ TimedOut(calls[i])
         => /\ calls'[i].status = "returned" /\ calls'[i].result = calls[i].result
            /\ (calls'[i].op # calls[i].op => verificationCache' = verificationCache)
C10_TimeoutReturnsAndSticks ==
  /\ [](\A i \in 1..Len(calls) :
          calls[i].status = "pending" => clock <= calls[i].startedAt + VerificationTimeout)
  /\ [][C10_TimeoutStep]_vars
\* A call timed out and the operation it abandoned has completed since.
C10_Witness == \E i \in 1..Len(calls) : TimedOut(calls[i]) /\ calls[i].op = "done"


(***************************************************************************)
(* Part 8. The answer pipeline of AnswersStore: normalizeAnswer applies    *)
(* the configured rules in order, validateAnswer decides correctness; and  *)
(* the normalization of AnswerUtil with its four switches.                 *)
(* A rule name is written with the HTML entity name of its umlaut:         *)
(* "replace-auml->ae" is the rule that replaces a-umlaut by "ae".          *)
(***************************************************************************)

\* One case of the switch of normalizeAnswer; an unknown rule only warns.
applyRule(s, rule) ==
  LET each(f(_)) == Flatten([i \in 1..Len(s) |-> f(s[i])])
      collapse(i) == IF ~IsSpace(s[i]) THEN <<s[i]>>
                     ELSE IF i > 1 /\ IsSpace(s[i - 1]) THEN <<>> ELSE <<32>>
      swap(c, to) == each(LAMBDA x : IF x = c THEN to ELSE <<x>>)
  IN  CASE rule = "lowercase" -> ToLowerCase(s)
        [] rule = "trim" -> Trim(s)
        [] rule = "collapse-spaces" -> Flatten([i \in 1..Len(s) |-> collapse(i)])
        [] rule = "replace-auml->ae" -> swap(228, <<97, 101>>)
        [] rule = "replace-ouml->oe" -> swap(246, <<111, 101>>)
        [] rule = "replace-uuml->ue" -> swap(252, <<117, 101>>)
        [] rule = "replace-szlig->ss" -> swap(223, <<115, 115>>)
        [] rule = "remove-spaces" -> SelectSeq(s, LAMBDA x : ~IsSpace(x))
        [] rule = "remove-punctuation" ->
             SelectSeq(s, LAMBDA x : x \notin {46, 44, 59, 58, 33, 63, 45})
        [] OTHER -> s

\* config.normalize || 'lowercase, trim, collapse-spaces', split and trimmed.
DefaultRules == <<"lowercase", "trim", "collapse-spaces">>

\* The rules applied last to first.
RECURSIVE applyRulesReversed(_, _)
applyRulesReversed(s, rules) ==
  IF rules = <<>> THEN s ELSE applyRule(applyRulesReversed(s, Tail(rules)), Head(rules))
\* The rule names the switch of normalizeAnswer has a case for.
KnownRules ==
  {"lowercase", "trim", "collapse-spaces", "replace-auml->ae", "replace-ouml->oe",
   "replace-uuml->ue", "replace-szlig->ss", "remove-spaces", "remove-punctuation"}
\* The loop over the rules, left at the first rule without a case.
RECURSIVE applyRulesStopAtUnknown(_, _)
applyRulesStopAtUnknown(s, rules) ==
  IF rules = <<>> \/ Head(rules) \notin KnownRules THEN s
  ELSE applyRulesStopAtUnknown(applyRule(s, Head(rules)), Tail(rules))
RECURSIVE applyRules(_, _)
applyRules(s, rules) ==
  IF rules = <<>> THEN s ELSE applyRules(applyRule(s, Head(rules)), Tail(rules))

\* normalizeAnswer(answer, config) without the trim rule.
normalizeAnswerNoTrim(answer, config) ==
  IF answer = <<>> THEN <<>>
  ELSE applyRules(answer, SelectSeq(IF config.normalize = <<>> THEN DefaultRules ELSE config.normalize,
                                    LAMBDA r : r # "trim"))
\* normalizeAnswer(answer, config); answer is a string ('' is falsy).
normalizeAnswer(answer, config) ==
  IF answer = <<>> THEN <<>>
  ELSE applyRules(answer, IF config.normalize = <<>> THEN DefaultRules ELSE config.normalize)

\* replaceDiacritics(text): the lower-case letters of the expression, each
\* replaced by its diacriticsMap entry.
replaceDiacritics(text) ==
  LET plain(c) ==
        CASE c = 228 -> <<97, 101>>
          [] c = 246 -> <<111, 101>>
          [] c = 252 -> <<117, 101>>
          [] c \in {224, 225, 226, 227, 229} -> <<97>>
          [] c \in {232, 233, 234, 235} -> <<101>>
          [] c \in {236, 237, 238, 239} -> <<105>>
          [] c \in {242, 243, 244, 245} -> <<111>>
          [] c \in {249, 250, 251} -> <<117>>
          [] c = 241 -> <<110>>
          [] c = 231 -> <<99>>
          [] OTHER -> <<c>>
  IN  Flatten([i \in 1..Len(text) |-> plain(text[i])])

\* AnswerUtil.normalizeAnswer(answer) under config.normalization.
AnswerUtil_normalizeAnswer(answer, normalization) ==
  LET lowered == IF normalization.lowercase THEN ToLowerCase(answer) ELSE answer
      spaceless == IF normalization.removeSpaces
                     THEN SelectSeq(lowered, LAMBDA x : ~IsSpace(x)) ELSE lowered
      replaced == IF normalization.removeDiacritics THEN replaceDiacritics(spaceless) ELSE spaceless
      isAlnum(x) == (x >= 48 /\ x <= 57) \/ (x >= 65 /\ x <= 90) \/ (x >= 97 /\ x <= 122)
  IN  IF normalization.removeSpecialChars THEN SelectSeq(replaced, isAlnum) ELSE replaced
Normalization == [lowercase : BOOLEAN, removeSpaces : BOOLEAN,
                  removeSpecialChars : BOOLEAN, removeDiacritics : BOOLEAN]
DefaultNormalization == [lowercase |-> TRUE, removeSpaces |-> TRUE,
                         removeSpecialChars |-> TRUE, removeDiacritics |-> TRUE]

\* SecurityStatic.createSecureHash(input, salt): a one-way digest of the
\* answer and its salt, equal for equal inputs only.
createSecureHash(input, salt) == [salt |-> salt, digestOf |-> input]
\* SecurityStatic.validateAnswerHash(answer, hash, salt): recompute the salted
\* hash of the answer and compare it to the reference hash.
validateAnswerHash(answer, hash, salt) == hash = createSecureHash(answer, salt)

\* validateAnswer with the two configured branches in the other order.
validateAnswerHashesFirst(normalizedAnswer, config, securityStatic) ==
  IF config.answer_hashes.set
    THEN securityStatic /\ \E i \in 1..Len(config.answer_hashes.list) :
                             validateAnswerHash(normalizedAnswer, config.answer_hashes.list[i], config.salt)
  ELSE IF config.accepted.set
    THEN \E i \in 1..Len(config.accepted.list) : config.accepted.list[i] = normalizedAnswer
  ELSE TRUE
\* validateAnswer(normalizedAnswer, config).  config.accepted and
\* config.answer_hashes are [set, list]: whether the array is there, and its
\* elements.  securityStatic: window.SecurityStatic.validateAnswerHash is a
\* function.
validateAnswer(normalizedAnswer, config, securityStatic) ==
  IF config.accepted.set
    THEN \E i \in 1..Len(config.accepted.list) : config.accepted.list[i] = normalizedAnswer
  ELSE IF config.answer_hashes.set
    THEN securityStatic /\ \E i \in 1..Len(config.answer_hashes.list) :
                             validateAnswerHash(normalizedAnswer, config.answer_hashes.list[i], config.salt)
  ELSE TRUE

\* The submitted texts: the documented Kuechenklaus answers, and every text
\* of at most MaxAnswerLen characters over a small alphabet (space, '-',
\* 'a', 'A-umlaut', 'a-umlaut').
MaxAnswerLen == 3
MaxRules == 2
AnswerAlphabet == {32, 45, 97, 196, 228}
ShortAnswers == UNION {[1..n -> AnswerAlphabet] : n \in 0..MaxAnswerLen}
Answers ==
  [Plasmafilter |-> <<80, 108, 97, 115, 109, 97, 102, 105, 108, 116, 101, 114>>,
   plasmaHyphen |-> <<112, 108, 97, 115, 109, 97, 45, 102, 105, 108, 116, 101, 114>>,
   upperPadded |-> <<32, 80, 76, 65, 83, 77, 65, 45, 70, 73, 76, 84, 69, 82, 32>>,
   twoWords |-> <<80, 108, 97, 115, 109, 97, 32, 70, 105, 108, 116, 101, 114>>,
   umlaut |-> <<112, 108, 97, 115, 109, 97, 102, 105, 108, 116, 228, 114>>,
   plasmafilter |-> <<112, 108, 97, 115, 109, 97, 102, 105, 108, 116, 101, 114>>,
   twoWordsLower |-> <<112, 108, 97, 115, 109, 97, 32, 102, 105, 108, 116, 101, 114>>,
   salt |-> <<107, 107, 50, 48, 50, 53>>]
DocumentedAnswers ==
  {Answers.Plasmafilter, Answers.plasmaHyphen, Answers.upperPadded, Answers.twoWords, Answers.umlaut}

\* The rule lists: every list of at most MaxRules rule names, and the two
\* lists the repository configures.  "remove-accents" is a name without a
\* case in the switch of normalizeAnswer.
RuleNames == {"lowercase", "trim", "collapse-spaces", "replace-auml->ae",
              "remove-punctuation", "remove-spaces", "remove-accents"}
RuleLists == UNION {[1..n -> RuleNames] : n \in 0..MaxRules}
KuechenklausRules == <<"lowercase", "trim", "collapse-spaces", "replace-auml->ae">>

\* The stage-2 configurations: an accepted list, reference hashes, both,
\* an empty accepted list beside hashes, or neither.
NotSet == [set |-> FALSE, list |-> <<>>]
IsSet(list) == [set |-> TRUE, list |-> list]
Stage2Rules ==
  LET accepted == IsSet(<<Answers.plasmafilter, Answers.plasmaHyphen>>)
      hashes == IsSet(<<createSecureHash(Answers.twoWordsLower, Answers.salt),
                        createSecureHash(Answers.plasmafilter, Answers.salt)>>)
      otherHashes == IsSet(<<createSecureHash(Answers.twoWordsLower, Answers.salt)>>)
  IN  {[accepted |-> accepted, answer_hashes |-> NotSet],
       [accepted |-> accepted, answer_hashes |-> otherHashes],
       [accepted |-> IsSet(<<>>), answer_hashes |-> hashes],
       [accepted |-> NotSet, answer_hashes |-> hashes],
       [accepted |-> NotSet, answer_hashes |-> otherHashes],
       [accepted |-> NotSet, answer_hashes |-> IsSet(<<>>)],
       [accepted |-> NotSet, answer_hashes |-> NotSet]}
Stage2Config(rule, normalize) ==
  [normalize |-> normalize, accepted |-> rule.accepted,
   answer_hashes |-> rule.answer_hashes, salt |-> Answers.salt]

\* An answer on its way: through AnswersStore.submitStage2Answer under a
\* stage-2 configuration, or through AnswerUtil.normalizeAnswer under
\* config.normalization.
NewSubmission(via, answer_raw, stage2Config, normalization, securityStatic) ==
  [via |-> via, stage |-> "new", answer_raw |-> answer_raw, stage2Config |-> stage2Config,
   normalization |-> normalization, securityStatic |-> securityStatic,
   answer_norm |-> <<>>, isCorrect |-> FALSE, resubmitted |-> FALSE, answer_first |-> <<>>]

AnswersInit ==
  /\ TimeIdle
  /\ QRIdle
  /\ cacheConfig = [maxEntries |-> AnswerCacheMaxEntries, ttl |-> AnswerCacheTtl]
  /\ answerCache = <<>> /\ answerCalls = <<>> /\ stage2 = NoStage2 /\ modalConfirm = NoModal
  /\ \/ \E a \in DocumentedAnswers, rule \in Stage2Rules,
           normalize \in {<<>>, KuechenklausRules}, securityStatic \in BOOLEAN :
          submission = NewSubmission("AnswersStore", a, Stage2Config(rule, normalize),
                                     DefaultNormalization, securityStatic)
     \/ \E a \in ShortAnswers, normalize \in RuleLists :
          submission = NewSubmission("AnswersStore", a,
                                     Stage2Config([accepted |-> NotSet, answer_hashes |-> NotSet],
                                                  normalize),
                                     DefaultNormalization, TRUE)
     \/ \E a \in ShortAnswers \cup DocumentedAnswers, normalization \in Normalization :
          submission = NewSubmission("AnswerUtil", a,
                                     Stage2Config([accepted |-> NotSet, answer_hashes |-> NotSet],
                                                  <<>>),
                                     normalization, TRUE)

\* submitStage2Answer(payload), steps 2 and 3: the answer is normalized and
\* its correctness decided; the session of the payload exists.
submitStage2Answer ==
  /\ submission.stage = "new"
  /\ submission.via = "AnswersStore"
  /\ LET answer_norm == normalizeAnswer(submission.answer_raw, submission.stage2Config)
     IN  submission' = [submission EXCEPT
                          !.stage = "submitted",
                          !.answer_norm = answer_norm,
                          !.isCorrect = validateAnswer(answer_norm, submission.stage2Config,
                                                       submission.securityStatic)]
  /\ UNCHANGED <<modalConfirm, cacheConfig, answerCache, answerCalls, stage2, timeVars, qrVars>>

\* AnswerUtil.normalizeAnswer(answer) called on the answer.
AnswerUtil_normalize ==
  /\ submission.stage = "new"
  /\ submission.via = "AnswerUtil"
  /\ submission' = [submission EXCEPT
                       !.stage = "submitted",
                       !.answer_norm = AnswerUtil_normalizeAnswer(submission.answer_raw,
                                                                 submission.normalization)]
  /\ UNCHANGED <<modalConfirm, cacheConfig, answerCache, answerCalls, stage2, timeVars, qrVars>>

\* The normalized answer is handed in again, the same way and under the
\* same configuration.
resubmit ==
  /\ submission.stage = "submitted"
  /\ ~submission.resubmitted
  /\ submission' = [submission EXCEPT !.stage = "new", !.answer_raw = submission.answer_norm,
                                      !.answer_norm = <<>>, !.isCorrect = FALSE,
                                      !.resubmitted = TRUE,
                                      !.answer_first = submission.answer_raw]
  /\ UNCHANGED <<modalConfirm, cacheConfig, answerCache, answerCalls, stage2, timeVars, qrVars>>

AnswersNext == submitStage2Answer \/ AnswerUtil_normalize \/ resubmit
SpecAnswers == AnswersInit /\ [][AnswersNext]_vars

(***************************************************************************)
(* Part 9. AnswerUtil: verifyAnswer with the answer cache, and the cache   *)
(* sweep.  window.SecurityStatic                                           *)
(* offers no createSecureHash here, so hashes are computed by fallbackHash. *)
(***************************************************************************)

\* The texts of AnswerUtil and of the puzzles verified below.
UtilText ==
  [plaintext |-> <<112, 108, 97, 105, 110, 116, 101, 120, 116>>, sha256 |-> <<83, 72, 65, 45, 50, 53, 54>>, dollar |-> <<36>>,
   day |-> <<50>>, salt |-> <<115>>, a |-> <<97>>, b |-> <<98>>, upperA |-> <<65>>,
   plainA |-> <<112, 108, 97, 105, 110, 116, 101, 120, 116, 58, 120, 58, 97>>]

\* A verification result { correct, matchedHash, algorithm, saltUsed,
\* verificationTime }; an absent or null field is the empty string, an
\* unmeasured time -1.
AnswerResult(correct, matchedHash, algorithm, saltUsed) ==
  [correct |-> correct, matchedHash |-> matchedHash, algorithm |-> algorithm,
   saltUsed |-> saltUsed, verificationTime |-> -1]

\* parseHashFormat(hashValue): "algorithm:salt:hash", "salt$hash", or the
\* hash alone.
parseHashFormat(hashValue) ==
  LET colon == Split(hashValue, 58)
      dollar == Split(hashValue, 36)
  IN  IF Len(colon) = 3
        THEN [algorithm |-> colon[1], salt |-> colon[2], hash |-> colon[3]]
      ELSE IF Len(dollar) = 2
        THEN [algorithm |-> UtilText.sha256, salt |-> dollar[1], hash |-> dollar[2]]
      ELSE [algorithm |-> UtilText.sha256, salt |-> <<>>, hash |-> hashValue]

\* fallbackHash(input, salt) = salt + '$' + Math.abs(hash).toString(16).
fallbackHash(input, salt) == salt \o UtilText.dollar \o simpleHash(salt \o input)

\* verifyAgainstHash(answer, hashValue).
verifyAgainstHash(answer, hashValue) ==
  LET hashInfo == parseHashFormat(hashValue)
      isMatch == fallbackHash(answer, hashInfo.salt) = hashValue
  IN  IF hashInfo.algorithm = UtilText.plaintext
        THEN AnswerResult(answer = hashInfo.hash, hashValue, <<>>, <<>>)
        ELSE AnswerResult(isMatch, IF isMatch THEN hashValue ELSE <<>>,
                          hashInfo.algorithm, hashInfo.salt)

\* verifyAgainstPlaintext(answer, plaintext).
verifyAgainstPlaintext(answer, plaintext) ==
  LET isMatch == answer = AnswerUtil_normalizeAnswer(plaintext, DefaultNormalization)
  IN  AnswerResult(isMatch, IF isMatch THEN plaintext ELSE <<>>, UtilText.plaintext, <<>>)

\* verifyAnswer after the cache lookup: the reference hash, the alternative
\* hashes, the plaintext.  The puzzles verified carry no answerPattern.
verifyAnswerSteps(normalizedAnswer, puzzleData) ==
  LET direct == IF puzzleData.answerHash # <<>>
                  THEN verifyAgainstHash(normalizedAnswer, puzzleData.answerHash)
                  ELSE AnswerResult(FALSE, <<>>, <<>>, <<>>)
      matching == {i \in 1..Len(puzzleData.answerHashes) :
                     verifyAgainstHash(normalizedAnswer, puzzleData.answerHashes[i]).correct}
      multiple == IF ~direct.correct /\ matching # {}
                    THEN verifyAgainstHash(normalizedAnswer, puzzleData.answerHashes[SetMin(matching)])
                    ELSE direct
  IN  IF ~multiple.correct /\ puzzleData.answerPlaintext # <<>>
        THEN verifyAgainstPlaintext(normalizedAnswer, puzzleData.answerPlaintext)
        ELSE multiple

\* AnswerUtil.getCacheKey(answer, puzzleData): the 31-hash of
\* answer + day + answerHash in base 36.
AnswerUtil_getCacheKey(answer, puzzleData) ==
  getCacheKey(answer \o puzzleData.day \o puzzleData.answerHash)

\* Deleting the last `count` entries of the same sort instead.
RECURSIVE RemoveNewest(_, _)
RemoveNewest(cache, count) ==
  IF count = 0 \/ cache = <<>> THEN cache
  ELSE LET most == SetMax({cache[i].timestamp : i \in 1..Len(cache)})
           last == SetMax({i \in 1..Len(cache) : cache[i].timestamp = most})
       IN  RemoveNewest(SubSeq(cache, 1, last - 1) \o SubSeq(cache, last + 1, Len(cache)), count - 1)
cacheResultEvictsNewest(cache, maxEntries, key, result, t) ==
  MapSet(IF Len(cache) >= maxEntries
           THEN RemoveNewest(cache, (maxEntries * 2) \div 10) ELSE cache,
         key, result, t)

\* cacheResult(key, result) at time t under config.cache.maxEntries.
cacheResult(cache, maxEntries, key, result, t) ==
  MapSet(IF Len(cache) >= maxEntries
           THEN RemoveOldest(cache, (maxEntries * 2) \div 10) ELSE cache,
         key, result, t)

\* The puzzles: a development plaintext, nothing configured, a reference
\* hash, a reference in the plaintext hash format, alternative hashes, and
\* another plaintext for the same day.
Puzzles ==
  LET puzzle(answerHash, answerHashes, answerPlaintext) ==
        [day |-> UtilText.day, answerHash |-> answerHash,
         answerHashes |-> answerHashes, answerPlaintext |-> answerPlaintext]
  IN  [plain |-> puzzle(<<>>, <<>>, UtilText.upperA),
       none |-> puzzle(<<>>, <<>>, <<>>),
       hashed |-> puzzle(fallbackHash(UtilText.a, UtilText.salt), <<>>, <<>>),
       hashedPlain |-> puzzle(UtilText.plainA, <<>>, <<>>),
       alternatives |-> puzzle(<<>>, <<fallbackHash(UtilText.b, UtilText.salt),
                                       fallbackHash(UtilText.a, UtilText.salt)>>, <<>>),
       plainOther |-> puzzle(<<>>, <<>>, UtilText.b)]

\* The sequences of verifyAnswer calls: <<normalizedAnswer, puzzleData>>.
MaxFill == 7
AnswerScripts ==
  {[i \in 1..MaxFill |-> <<<<96 + i>>, Puzzles.plain>>],
   <<<<UtilText.a, Puzzles.plain>>, <<UtilText.a, Puzzles.plain>>, <<UtilText.b, Puzzles.plain>>>>,
   <<<<UtilText.a, Puzzles.none>>, <<UtilText.b, Puzzles.none>>>>,
   <<<<UtilText.a, Puzzles.hashed>>, <<UtilText.a, Puzzles.hashed>>, <<UtilText.b, Puzzles.hashed>>>>,
   <<<<UtilText.a, Puzzles.alternatives>>, <<UtilText.a, Puzzles.plain>>, <<UtilText.a, Puzzles.plainOther>>>>,
   <<<<UtilText.a, Puzzles.hashedPlain>>, <<UtilText.b, Puzzles.hashedPlain>>>>}

AnswerCleanupPeriod == 60000
MaxConfiguredEntries == 6
MaxAnswerClock == 360000

AnswerUtilInit ==
  /\ TimeIdle
  /\ submission = NoSubmission
  /\ stage2 = NoStage2 /\ modalConfirm = NoModal
  /\ clock = 0
  /\ session \in [subtle : {FALSE}, security : {FALSE}, script : AnswerScripts]
  /\ publicKeys = {}
  /\ nextCleanup = AnswerCleanupPeriod
  /\ verificationCache = <<>>
  /\ calls = <<>>
  /\ cacheConfig \in [maxEntries : 1..MaxConfiguredEntries \cup {AnswerCacheMaxEntries},
                      ttl : {AnswerCacheTtl}]
  /\ answerCache = <<>>
  /\ answerCalls = <<>>

\* One call of verifyAnswer: its arguments, what its cache lookup found
\* (the age of the entry of its key, -1 if there was none), and its result.
AnswerCall(normalizedAnswer, puzzleData, t) ==
  [normalizedAnswer |-> normalizedAnswer, puzzleData |-> puzzleData, startedAt |-> t,
   foundAge |-> -1, status |-> "pending", fromCache |-> FALSE,
   result |-> AnswerResult(FALSE, <<>>, <<>>, <<>>), returnedAt |-> -1]

AnswerPending == \E i \in 1..Len(answerCalls) : answerCalls[i].status = "pending"

\* verifyAnswer(normalizedAnswer, puzzleData) up to its first await, or to
\* its return when it awaits nothing.
verifyAnswer ==
  /\ Len(answerCalls) < Len(session.script)
  /\ LET input == session.script[Len(answerCalls) + 1]
         cacheKey == AnswerUtil_getCacheKey(input[1], input[2])
         cached == {i \in 1..Len(answerCache) : answerCache[i].key = cacheKey}
         call == [AnswerCall(input[1], input[2], clock) EXCEPT
                    !.foundAge = IF cached = {} THEN -1
                                 ELSE clock - answerCache[SetMin(cached)].timestamp]
         awaits == input[2].answerHash # <<>> \/ input[2].answerHashes # <<>>
         result == [verifyAnswerSteps(input[1], input[2]) EXCEPT !.verificationTime = 0]
     IN  IF cached # {} /\ call.foundAge < cacheConfig.ttl
           THEN /\ answerCalls' = Append(answerCalls,
                     [call EXCEPT !.status = "returned", !.fromCache = TRUE,
                                  !.result = answerCache[SetMin(cached)].result,
                                  !.returnedAt = clock])
                /\ answerCache' = answerCache
         ELSE IF awaits
           THEN /\ answerCalls' = Append(answerCalls, call)
                /\ answerCache' = answerCache
         ELSE /\ answerCalls' = Append(answerCalls,
                     [call EXCEPT !.status = "returned", !.result = result, !.returnedAt = clock])
              /\ answerCache' = cacheResult(answerCache, cacheConfig.maxEntries, cacheKey, result, clock)
  /\ UNCHANGED <<modalConfirm, clock, session, publicKeys, nextCleanup, verificationCache, calls,
                 submission, stage2, cacheConfig, timeVars>>

\* A call that awaited verifyAgainstHash goes on to its return.
verifyAnswerResume ==
  \E i \in 1..Len(answerCalls) :
    /\ answerCalls[i].status = "pending"
    /\ LET call == answerCalls[i]
           result == [verifyAnswerSteps(call.normalizedAnswer, call.puzzleData) EXCEPT
                        !.verificationTime = clock - call.startedAt]
       IN  /\ answerCalls' = [answerCalls EXCEPT ![i] =
                                [call EXCEPT !.status = "returned", !.result = result,
                                             !.returnedAt = clock]]
           /\ answerCache' = cacheResult(answerCache, cacheConfig.maxEntries,
                                         AnswerUtil_getCacheKey(call.normalizedAnswer, call.puzzleData),
                                         result, clock)
    /\ UNCHANGED <<modalConfirm, clock, session, publicKeys, nextCleanup, verificationCache, calls,
                   submission, stage2, cacheConfig, timeVars>>

\* The same callback deleting from the age of the TTL on.
answerCleanupAtTtl ==
  /\ ~AnswerPending
  /\ clock = nextCleanup
  /\ answerCache' = SelectSeq(answerCache, LAMBDA e : ~(clock - e.timestamp >= cacheConfig.ttl))
  /\ nextCleanup' = clock + AnswerCleanupPeriod
  /\ UNCHANGED <<modalConfirm, clock, session, publicKeys, verificationCache, calls,
                 submission, stage2, cacheConfig, answerCalls, timeVars>>

\* The callback of startCacheCleanup: entries older than the TTL are deleted.
answerCleanup ==
  /\ ~AnswerPending
  /\ clock = nextCleanup
  /\ answerCache' = SelectSeq(answerCache, LAMBDA e : ~(clock - e.timestamp > cacheConfig.ttl))
  /\ nextCleanup' = clock + AnswerCleanupPeriod
  /\ UNCHANGED <<modalConfirm, clock, session, publicKeys, verificationCache, calls,
                 submission, stage2, cacheConfig, answerCalls, timeVars>>

\* Time passes until the sweep is due; continuations run first.
AnswerTick ==
  /\ ~AnswerPending
  /\ clock < nextCleanup
  /\ nextCleanup <= MaxAnswerClock
  /\ clock' = nextCleanup
  /\ UNCHANGED <<modalConfirm, session, publicKeys, nextCleanup, verificationCache, calls, answerVars, timeVars>>

AnswerUtilNext == verifyAnswer \/ verifyAnswerResume \/ answerCleanup \/ AnswerTick
SpecAnswerUtil == AnswerUtilInit /\ [][AnswerUtilNext]_vars

(***************************************************************************)
(* Part 10. The statements about the answer pipeline and the caches.       *)
(***************************************************************************)

Submitted == submission.stage = "submitted"
InAccepted ==
  \E i \in 1..Len(submission.stage2Config.accepted.list) :
    submission.stage2Config.accepted.list[i] = submission.answer_norm
HashPairMatches ==
  \E i \in 1..Len(submission.stage2Config.answer_hashes.list) :
    submission.stage2Config.answer_hashes.list[i] =
      createSecureHash(submission.answer_norm, submission.stage2Config.salt)

C12_UnconfiguredAccepted ==
  /\ (Submitted /\ ~submission.stage2Config.accepted.set
                /\ ~submission.stage2Config.answer_hashes.set) => submission.isCorrect
  /\ \A i \in 1..Len(answerCalls) :
       (/\ answerCalls[i].status = "returned"
        /\ answerCalls[i].puzzleData.answerHash = <<>>
        /\ answerCalls[i].puzzleData.answerHashes = <<>>
        /\ answerCalls[i].puzzleData.answerPlaintext = <<>>) => answerCalls[i].result.correct

\* The rules in force, and the orders in which no rule undoes the work of an
\* earlier one: no remove-punctuation after a trim or a collapse-spaces (it
\* would bare white space anew), no lowercase after a replace rule (it would
\* produce the letter the replace rule looks for).
RulesInForce ==
  IF submission.stage2Config.normalize = <<>> THEN DefaultRules
  ELSE submission.stage2Config.normalize
SettledOrder(rules) ==
  \A i, j \in 1..Len(rules) :
    i < j =>
      /\ ~(rules[i] \in {"trim", "collapse-spaces"} /\ rules[j] = "remove-punctuation")
      /\ ~(rules[i] \in {"replace-auml->ae", "replace-ouml->oe", "replace-uuml->ue",
                         "replace-szlig->ss"} /\ rules[j] = "lowercase")

C14_Kuechenklaus ==
  (/\ Submitted /\ ~submission.resubmitted /\ submission.via = "AnswersStore"
   /\ RulesInForce = <<"lowercase", "trim", "collapse-spaces">>
   /\ submission.stage2Config.accepted = IsSet(<<Answers.plasmafilter, Answers.plasmaHyphen>>))
    => /\ submission.answer_raw \in {Answers.Plasmafilter, Answers.plasmaHyphen, Answers.upperPadded}
            => submission.isCorrect
       /\ submission.answer_raw \in {Answers.twoWords, Answers.umlaut} => ~submission.isCorrect
\* The padded upper-case answer was accepted under the default rules.
C14_Witness ==
  /\ Submitted /\ ~submission.resubmitted /\ submission.via = "AnswersStore"
  /\ submission.stage2Config.normalize = <<>>
  /\ submission.stage2Config.accepted = IsSet(<<Answers.plasmafilter, Answers.plasmaHyphen>>)
  /\ submission.answer_raw = Answers.upperPadded
  /\ submission.answer_norm = Answers.plasmaHyphen
  /\ submission.isCorrect

\* C15 (as claimed): whatever is inserted, looked up and swept, and for
\* every configured maxEntries >= 1, a cache never holds more than
\* maxEntries entries.
C15_CacheWithinCapacity ==
  /\ Len(answerCache) <= cacheConfig.maxEntries
  /\ Len(verificationCache) <= MaxCacheEntries

\* Two results of verifyQRCode that differ in their time stamp at most.
SameVerdict(r1, r2) == [r1 EXCEPT !.timestamp = 0] = [r2 EXCEPT !.timestamp = 0]
RateLimited(call) == call.result.error = "Rate-Limit fuer QR-Scans ueberschritten"

\* C16 (as claimed): of two consecutive calls with identical arguments, the
\* second begun after the first returned and before the TTL has passed, the
\* second returns the result of the first and computes nothing: it is
\* served from the cache or never reaches the signature verification.
C16_RepeatServedFromCache ==
  /\ \A i \in 1..(Len(calls) - 1) :
       (/\ calls[i].status = "returned" /\ calls[i + 1].status = "returned"
        /\ calls[i].qrData = calls[i + 1].qrData
        /\ calls[i].expectedData = calls[i + 1].expectedData
        /\ ~RateLimited(calls[i]) /\ ~RateLimited(calls[i + 1])
        /\ calls[i].returnedAt < calls[i + 1].startedAt
        /\ calls[i + 1].startedAt - calls[i].returnedAt < CacheTimeout)
         => /\ SameVerdict(calls[i].result, calls[i + 1].result)
            /\ calls[i + 1].fromCache \/ calls[i + 1].op = "none"
  /\ \A i \in 1..(Len(answerCalls) - 1) :
       (/\ answerCalls[i].status = "returned" /\ answerCalls[i + 1].status = "returned"
        /\ answerCalls[i].normalizedAnswer = answerCalls[i + 1].normalizedAnswer
        /\ answerCalls[i].puzzleData = answerCalls[i + 1].puzzleData
        /\ answerCalls[i].returnedAt < answerCalls[i + 1].startedAt
        /\ answerCalls[i + 1].startedAt - answerCalls[i].returnedAt < cacheConfig.ttl)
         => /\ answerCalls[i].result = answerCalls[i + 1].result
            /\ answerCalls[i + 1].fromCache

\* C17 (as claimed): a lookup never returns a result whose age has reached
\* the TTL, and an entry found expired at a lookup is gone from the cache
\* once that lookup is over.
C17_ExpiredNeitherServedNorKept ==
  \A i \in 1..Len(answerCalls) :
    /\ answerCalls[i].fromCache
         => (answerCalls[i].foundAge >= 0 /\ answerCalls[i].foundAge < cacheConfig.ttl)
    /\ (answerCalls[i].status = "pending" /\ answerCalls[i].foundAge >= cacheConfig.ttl)
         => ~\E k \in 1..Len(answerCache) :
               /\ answerCache[k].key = AnswerUtil_getCacheKey(answerCalls[i].normalizedAnswer,
                                                              answerCalls[i].puzzleData)
               /\ clock - answerCache[k].timestamp >= cacheConfig.ttl

\* C18 (as claimed): when calls are in flight together, each call returns
\* the result of its own arguments; the cache holds entries of distinct
\* keys, no more than its capacity; and a call that completes an insert
\* leaves its result as the entry of its key.
C18_OwnResult ==
  \A i \in 1..Len(answerCalls) :
    answerCalls[i].status = "returned"
      => [answerCalls[i].result EXCEPT !.verificationTime = 0]
           = [verifyAnswerSteps(answerCalls[i].normalizedAnswer, answerCalls[i].puzzleData)
                EXCEPT !.verificationTime = 0]
C18_CacheWellFormed ==
  /\ \A k, l \in 1..Len(answerCache) : answerCache[k].key = answerCache[l].key => k = l
  /\ Len(answerCache) <= cacheConfig.maxEntries
C18_InsertStep ==
  \A i \in 1..Len(answerCalls) :
    (answerCalls[i].status = "pending" /\ answerCalls'[i].status = "returned")
      => \E k \in 1..Len(answerCache') :
           /\ answerCache'[k].key = AnswerUtil_getCacheKey(answerCalls[i].normalizedAnswer,
                                                           answerCalls[i].puzzleData)
           /\ answerCache'[k].result = answerCalls'[i].result
C18_InterleavedCallsKeepTheirResults ==
  /\ [](C18_OwnResult /\ C18_CacheWellFormed)
  /\ [][C18_InsertStep]_vars

\* The outer formats of a token string: v1.<base64>.<base64>; four dotted
\* fields, the first being hmac; a base64 text of a JSON document.
OuterV1(s) == matchV1(s) # <<>>
OuterHmac(s) == Len(Split(s, 46)) = 4 /\ Split(s, 46)[1] = Lit.hmac
OuterBase64Json(s) == ParseB64Json(s).ok
\* The calls whose token string reached parseQRCode.
ParsedCalls ==
  {i \in ReturnedCalls :
     /\ ~calls[i].fromCache
     /\ validateQRInput(calls[i].qrData).valid
     /\ ~RateLimited(calls[i])
     /\ calls[i].result.error # "TypeError: window.SecurityStatic is undefined"}
Unrecognized(call) == call.result.error = "QR-Code-Format nicht erkannt"

\* C19 (as claimed): parseQRCode tries the versioned form, then the dotted
\* four-field keyed-hash form, then the base64 JSON form; a string matching
\* an earlier form is never parsed as a later one; and the format is
\* reported unrecognized only when none of the forms matches.
C19_FormatPriority ==
  \A i \in ParsedCalls :
    LET s == calls[i].qrData.s
    IN  /\ (calls[i].parsed.ok /\ OuterV1(s)) => calls[i].parsed.version = Str(<<49, 46, 48>>)
        /\ (calls[i].parsed.ok /\ ~OuterV1(s) /\ OuterHmac(s)) => calls[i].parsed.version = Str(Lit.hmac)
        /\ (calls[i].parsed.ok /\ OuterBase64Json(s)) => ~OuterV1(s) /\ ~OuterHmac(s)
        /\ Unrecognized(calls[i]) => (~OuterV1(s) /\ ~OuterHmac(s) /\ ~OuterBase64Json(s))

\* C20 (as claimed): a token whose outer format is recognized and whose
\* payload segment is malformed is refused for its payload, with a reason
\* other than that of an unrecognized format, and the parser does not throw.
MalformedPayload(s) ==
  \/ OuterV1(s) /\ ~ParseB64Json(matchV1(s)[2]).ok
  \/ OuterHmac(s) /\ ~ParseB64Json(Split(s, 46)[4]).ok
C20_MalformedPayloadTold ==
  \A i \in 1..Len(calls) :
    (/\ validateQRInput(calls[i].qrData).valid
     /\ calls[i].status # "pending"
     /\ ~calls[i].fromCache /\ ~RateLimited(calls[i])
     /\ calls[i].result.error # "TypeError: window.SecurityStatic is undefined"
     /\ MalformedPayload(calls[i].qrData.s))
      => /\ calls[i].status = "returned"
         /\ ~calls[i].result.valid
         /\ ~Unrecognized(calls[i])

(***************************************************************************)
(* Part 11. The stage-2 flow of the page.  handleStage2QRCode (main.js)    *)
(* opens the hint view for a scanned token.  The submit handler of main.js *)
(* hands the text of the answer field to AnswersStore.submitStage2Answer   *)
(* (reachable as window.WR_ANSWER_STORE as well), which normalizes and     *)
(* validates it, stores the submission in localStorage, sends it to the    *)
(* server and returns a result; the handler then shows a message.          *)
(* stage2 is the one handler at work: its environment, its inputs, its     *)
(* position (pc) and what it has produced so far.                          *)
(***************************************************************************)

\* The methods of the object window.QRVerify (class QRVerify).
QRVerifyMethods ==
  {"init", "loadPredefinedKeys", "testCryptoSupport", "verifyQRCode", "validateQRInput",
   "parseQRCode", "parseV1Format", "parseHMACFormat", "parseSimpleFormat", "parseJSONFormat",
   "performVerification", "verifySignature", "verifyHMAC", "verifyHMACWebCrypto",
   "verifyHMACFallback", "verifyPlaintext", "validateExpectedData", "simpleHashCompare",
   "withTimeout", "getCacheKey", "cacheVerificationResult", "startCacheCleanup",
   "generateTestQR", "simpleHash", "getStatus"}

\* What modules.get('calendar') is: nothing; the class CalendarLogic, which
\* calendar.logic.js exports as window.CalendarLogic and initializeModules
\* registers (getPuzzle is a method of its instances, not of the class); or
\* an instance, such as window.calendarLogic.
CalendarModules == {"absent", "class", "instance"}
\* What modules.get('qrVerify') is: nothing, or the object window.QRVerify.
QRVerifyModules == {"absent", "QRVerify"}
\* The qr parameter: a token verifyQRCode accepts for { day, stage: 2 }, a
\* token it rejects, or the word 'test'.
QRTokens == {"accepted", "rejected", "test"}

\* The messages of showErrorMessage and showSuccessMessage.
Msg ==
  [none |-> "",
   processing |-> "QR-Code konnte nicht verarbeitet werden.",
   noVerifier |-> "QR-Code Verifikation nicht moeglich. Nutze ?qr=test fuer Tests.",
   invalidQR |-> "Ungueltiger QR-Code. Bitte versuche es erneut.",
   noCalendar |-> "Kalender nicht verfuegbar.",
   noStage2 |-> "Stage-2 Daten nicht verfuegbar.",
   noView |-> "Stage-2 Ansicht konnte nicht geladen werden.",
   sendFailed |-> "Fehler beim Senden der Antwort.",
   savedLocally |-> "Antwort wurde lokal gespeichert.",
   submitted |-> "Deine Antwort wurde erfolgreich eingereicht!",
   notSent |-> "Antwort konnte nicht gesendet werden.",
   noSession |-> "Stage-2 Session nicht gefunden"]

\* `const qrResult` is declared inside the else block of the verification
\* and read where renderOptions is built, in the body of the function: the
\* read is a ReferenceError unless both are the same block.
qrResultDeclaredIn == "else block"
renderOptionsBuiltIn == "function body"

\* handleStage2QRCode(day, qrToken): the message it shows and the view it
\* opens.  A call of a method the object does not have is a TypeError, which
\* the catch block of the handler reports; rendered is what
\* renderStage2HintView returns.
handleStage2QRCodeSteps(qrVerify, qrToken, calendar, hasStage2, rendered) ==
  LET shows(message) == [shown |-> message, view |-> "none"]
      afterVerification ==
        IF calendar = "absent" THEN shows(Msg.noCalendar)
        ELSE IF calendar = "class" THEN shows(Msg.processing)
        ELSE IF ~hasStage2 THEN shows(Msg.noStage2)
        ELSE IF qrResultDeclaredIn # renderOptionsBuiltIn THEN shows(Msg.processing)
        ELSE IF ~rendered THEN shows(Msg.noView)
        ELSE [shown |-> Msg.none, view |-> "stage2-hint"]
  IN  IF qrVerify = "absent"
        THEN IF qrToken = "test" THEN afterVerification ELSE shows(Msg.noVerifier)
      ELSE IF "verifyToken" \notin QRVerifyMethods THEN shows(Msg.processing)
      ELSE IF qrToken # "accepted" THEN shows(Msg.invalidQR)
      ELSE afterVerification

\* answer_meta of a door: the stage-2 configuration with its two messages
\* ("" when the message is not configured).
AnswerMeta(config, success_message, error_message) ==
  [config |-> config, success_message |-> success_message, error_message |-> error_message]
\* puzzleData?.stage2?.answer_meta || {}
EmptyMeta == AnswerMeta(Stage2Config([accepted |-> NotSet, answer_hashes |-> NotSet], <<>>), "", "")
\* The answer_meta of the doors: the Kuechenklaus door with its accepted
\* list and both messages, and a door with reference hashes and no messages.
DoorMetas ==
  {AnswerMeta(Stage2Config([accepted |-> IsSet(<<Answers.plasmafilter, Answers.plasmaHyphen>>),
                            answer_hashes |-> NotSet], KuechenklausRules),
              "success_message", "error_message"),
   AnswerMeta(Stage2Config([accepted |-> NotSet,
                            answer_hashes |-> IsSet(<<createSecureHash(Answers.plasmafilter, Answers.salt)>>)],
                           <<>>),
              "", "")}
\* The texts of the answer field.
FieldTexts == {Answers.Plasmafilter, Answers.upperPadded, Answers.twoWords, <<32, 32>>}

\* AnswersStore.config.maxSubmissionsInMemory
MaxSubmissionsInMemory == 1000
\* What localStorage does with setItem: store the value, or throw
\* (QuotaExceededError, storage disabled).
StorageStates == {"ok", "throws"}
\* How the fetch of submitToServer settles: a 2xx response, another status,
\* a network error (fetch rejects), or the abort of the timeout.
FetchOutcomes == {"ok", "http-error", "network-error", "timeout"}
ServerResult(success, error) == [success |-> success, error |-> error]
\* The result of submitStage2Answer: { ok, localSaved, serverSaved,
\* isCorrect, errorMessage }.
SubmitResult(ok, localSaved, serverSaved, isCorrect, errorMessage) ==
  [ok |-> ok, localSaved |-> localSaved, serverSaved |-> serverSaved,
   isCorrect |-> isCorrect, errorMessage |-> errorMessage]
NoSubmitResult == SubmitResult(FALSE, FALSE, FALSE, FALSE, "")
\* The entry of a submission in localStorage.
Stored(answer_raw, answer_norm, isCorrect) ==
  [answer_raw |-> answer_raw, answer_norm |-> answer_norm, isCorrect |-> isCorrect]
\* submissions.splice(0, length - maxSubmissionsInMemory): the last entries.
KeepLast(submissions, n) ==
  IF Len(submissions) > n THEN SubSeq(submissions, Len(submissions) - n + 1, Len(submissions))
  ELSE submissions

Stage2Init ==
  /\ TimeIdle
  /\ QRIdle
  /\ submission = NoSubmission
  /\ cacheConfig = [maxEntries |-> AnswerCacheMaxEntries, ttl |-> AnswerCacheTtl]
  /\ answerCache = <<>> /\ answerCalls = <<>>
  /\ modalConfirm = NoModal
  /\ \/ \E qrVerify \in QRVerifyModules, qrToken \in QRTokens, calendar \in CalendarModules,
           hasStage2 \in BOOLEAN, rendered \in BOOLEAN :
          stage2 = [flow |-> "qr", pc |-> "start", qrVerify |-> qrVerify, qrToken |-> qrToken,
                    calendar |-> calendar, hasStage2 |-> hasStage2, rendered |-> rendered,
                    shown |-> Msg.none, view |-> "none"]
     \/ \E caller \in {"main", "api"}, calendar \in CalendarModules, answersStore \in BOOLEAN,
           sessionFound \in BOOLEAN, securityStatic \in BOOLEAN, enableLocalBackup \in BOOLEAN,
           storage \in StorageStates, endpoint \in BOOLEAN,
           text \in FieldTexts, doorMeta \in DoorMetas :
          /\ caller = "api" => calendar = "instance" /\ answersStore
          /\ stage2 = [flow |-> "submit", pc |-> "start", caller |-> caller,
                       calendar |-> calendar, answersStore |-> answersStore,
                       sessionFound |-> sessionFound, securityStatic |-> securityStatic,
                       enableLocalBackup |-> enableLocalBackup, storage |-> storage,
                       endpoint |-> endpoint, text |-> text, doorMeta |-> doorMeta,
                       answerMeta |-> EmptyMeta, answer_raw |-> <<>>, answer_norm |-> <<>>,
                       validated |-> FALSE, isCorrect |-> FALSE,
                       localStorage |-> <<>>, localSaved |-> FALSE,
                       attempts |-> 0, storedWhenSent |-> FALSE,
                       serverResult |-> ServerResult(FALSE, ""),
                       result |-> NoSubmitResult, shown |-> Msg.none]

\* handleStage2QRCode(day, qrToken), to its end.
handleStage2QRCode ==
  /\ stage2.flow = "qr" /\ stage2.pc = "start"
  /\ LET end == handleStage2QRCodeSteps(stage2.qrVerify, stage2.qrToken, stage2.calendar,
                                        stage2.hasStage2, stage2.rendered)
     IN  stage2' = [stage2 EXCEPT !.pc = "done", !.shown = end.shown, !.view = end.view]
  /\ UNCHANGED <<modalConfirm, submission, cacheConfig, answerCache, answerCalls, timeVars, qrVars>>

\* The submit handler of main.js up to its call of the store: an empty
\* field is only focused; calendar.getPuzzle of the class is a TypeError,
\* reported by the catch block; without window.AnswersStore the answer goes
\* to saveStage2AnswerFallback and is reported as saved.
mainSubmitStage2Answer ==
  /\ stage2.flow = "submit" /\ stage2.pc = "start" /\ stage2.caller = "main"
  /\ LET answerText == Trim(stage2.text)
         answerMeta == IF stage2.calendar = "instance" THEN stage2.doorMeta ELSE EmptyMeta
     IN  stage2' =
           IF answerText = <<>> THEN [stage2 EXCEPT !.pc = "done"]
           ELSE IF stage2.calendar = "class"
             THEN [stage2 EXCEPT !.pc = "done", !.answer_raw = answerText, !.shown = Msg.sendFailed]
           ELSE IF ~stage2.answersStore
             THEN [stage2 EXCEPT !.pc = "done", !.answer_raw = answerText,
                                 !.answerMeta = answerMeta, !.shown = Msg.savedLocally]
           ELSE [stage2 EXCEPT !.pc = "store", !.answer_raw = answerText, !.answerMeta = answerMeta]
  /\ UNCHANGED <<modalConfirm, submission, cacheConfig, answerCache, answerCalls, timeVars, qrVars>>

\* window.WR_ANSWER_STORE.submitStage2Answer(payload) called with the
\* answer_meta of the door.
callSubmitStage2Answer ==
  /\ stage2.flow = "submit" /\ stage2.pc = "start" /\ stage2.caller = "api"
  /\ stage2' = [stage2 EXCEPT !.pc = "store", !.answer_raw = stage2.text,
                              !.answerMeta = stage2.doorMeta]
  /\ UNCHANGED <<modalConfirm, submission, cacheConfig, answerCache, answerCalls, timeVars, qrVars>>

\* AnswersStore.submitStage2Answer, steps 1 to 5: the session is looked up
\* (a missing session is thrown and caught: ok = false), the answer
\* normalized and validated, the submission object built.
storeSubmitStage2Answer ==
  /\ stage2.flow = "submit" /\ stage2.pc = "store"
  /\ LET answer_norm == normalizeAnswer(stage2.answer_raw, stage2.answerMeta.config)
         isCorrect == validateAnswer(answer_norm, stage2.answerMeta.config, stage2.securityStatic)
     IN  stage2' =
           IF ~stage2.sessionFound
             THEN [stage2 EXCEPT !.pc = "returned",
                                 !.result = SubmitResult(FALSE, FALSE, FALSE, FALSE, Msg.noSession)]
             ELSE [stage2 EXCEPT !.pc = "saveToLocalStorage", !.answer_norm = answer_norm,
                                 !.validated = TRUE, !.isCorrect = isCorrect]
  /\ UNCHANGED <<modalConfirm, submission, cacheConfig, answerCache, answerCalls, timeVars, qrVars>>

\* saveToLocalStorage(submission): false when the backup is disabled or the
\* storage throws, else the submission is appended and true returned.
saveToLocalStorage ==
  /\ stage2.flow = "submit" /\ stage2.pc = "saveToLocalStorage"
  /\ stage2' =
       IF stage2.enableLocalBackup /\ stage2.storage = "ok"
         THEN [stage2 EXCEPT !.pc = "submitToServer", !.localSaved = TRUE,
                 !.localStorage = KeepLast(Append(@, Stored(stage2.answer_raw, stage2.answer_norm,
                                                             stage2.isCorrect)),
                                           MaxSubmissionsInMemory)]
         ELSE [stage2 EXCEPT !.pc = "submitToServer", !.localSaved = FALSE]
  /\ UNCHANGED <<modalConfirm, submission, cacheConfig, answerCache, answerCalls, timeVars, qrVars>>

\* submitToServer(submission) up to its fetch: without an endpoint it
\* returns { success: false, error: 'No endpoint configured' }.
submitToServer ==
  /\ stage2.flow = "submit" /\ stage2.pc = "submitToServer"
  /\ stage2' =
       IF ~stage2.endpoint
         THEN [stage2 EXCEPT !.pc = "finish",
                             !.serverResult = ServerResult(FALSE, "No endpoint configured")]
         ELSE [stage2 EXCEPT !.pc = "fetch", !.attempts = @ + 1,
                             !.storedWhenSent = stage2.localStorage # <<>>]
  /\ UNCHANGED <<modalConfirm, submission, cacheConfig, answerCache, answerCalls, timeVars, qrVars>>

\* The fetch settles and submitToServer returns: success for a 2xx
\* response, else { success: false, error }.  There is no second fetch.
fetchSettles ==
  /\ stage2.flow = "submit" /\ stage2.pc = "fetch"
  /\ \E outcome \in FetchOutcomes :
       stage2' = [stage2 EXCEPT
                    !.pc = "finish",
                    !.serverResult =
                       CASE outcome = "ok" -> ServerResult(TRUE, "")
                         [] outcome = "http-error" -> ServerResult(FALSE, "Server responded with 500")
                         [] outcome = "network-error" -> ServerResult(FALSE, "Failed to fetch")
                         [] outcome = "timeout" -> ServerResult(FALSE, "Request timeout")]
  /\ UNCHANGED <<modalConfirm, submission, cacheConfig, answerCache, answerCalls, timeVars, qrVars>>

\* submitStage2Answer, steps 8 and 9: the session is deleted and the result
\* built, ok = true whatever was saved.
storeReturn ==
  /\ stage2.flow = "submit" /\ stage2.pc = "finish"
  /\ stage2' = [stage2 EXCEPT !.pc = "returned",
                              !.result = SubmitResult(TRUE, stage2.localSaved,
                                                      stage2.serverResult.success,
                                                      stage2.isCorrect, "")]
  /\ UNCHANGED <<modalConfirm, submission, cacheConfig, answerCache, answerCalls, timeVars, qrVars>>

\* The submit handler of main.js after the store has returned: the success
\* message for result.ok, else the error message.
mainShowResult ==
  /\ stage2.flow = "submit" /\ stage2.pc = "returned" /\ stage2.caller = "main"
  /\ LET successMsg == IF stage2.answerMeta.success_message # ""
                         THEN stage2.answerMeta.success_message ELSE Msg.submitted
         errorMsg == IF stage2.answerMeta.error_message # "" THEN stage2.answerMeta.error_message
                     ELSE IF stage2.result.errorMessage # "" THEN stage2.result.errorMessage
                     ELSE Msg.notSent
     IN  stage2' = [stage2 EXCEPT !.pc = "done",
                                  !.shown = IF stage2.result.ok THEN successMsg ELSE errorMsg]
  /\ UNCHANGED <<modalConfirm, submission, cacheConfig, answerCache, answerCalls, timeVars, qrVars>>

Stage2Next ==
  \/ handleStage2QRCode
  \/ mainSubmitStage2Answer
  \/ callSubmitStage2Answer
  \/ storeSubmitStage2Answer
  \/ saveToLocalStorage
  \/ submitToServer
  \/ fetchSettles
  \/ storeReturn
  \/ mainShowResult
SpecStage2 == Stage2Init /\ [][Stage2Next]_vars

(***************************************************************************)
(* Part 12. The statements about failures, the time helpers and the        *)
(* stage-2 submission.                                                     *)
(***************************************************************************)

\* The call appended by a verifyQRCode step.
NewestCall == calls'[Len(calls')]
\* The reasons of a signature mismatch.
MismatchReasons == {"Ungueltige Signatur", "Ungueltige Signatur (Fallback)"}
\* A call that verifySignature decided without the Web Crypto API returns
\* what verifySignature decided.
ReturnsOutcome(call) ==
  (call.status = "returned" /\ ~call.fromCache /\ call.outcome.kind = "fulfilled")
    => call.result = call.outcome.result
C21_VerifyStep ==
  (Len(calls') = Len(calls) + 1 /\ NewestCall.parsed.ok
   /\ NewestCall.parsed.algorithm = Str(Lit.HMAC))
    => LET unknown == KeyData(publicKeys, NewestCall.parsed.keyId) = {}
           o == NewestCall.outcome
       IN  /\ unknown => /\ o.kind = "fulfilled"
                         /\ ~o.result.valid
                         /\ o.result.error = "Unbekannte Key-ID"
                         /\ o.result.keyId = NewestCall.parsed.keyId
           /\ ~unknown => o.result.error # "Unbekannte Key-ID"
\* C21: a keyed-hash token whose key id has no secret in publicKeys when it
\* is verified gets the result { valid: false, error: 'Unbekannte Key-ID' }
\* with its key id, the caller receives that result, and no verification
\* of a token whose key id has a secret carries that reason: a signature
\* mismatch carries one of MismatchReasons.
C21_UnknownKeyTold ==
  /\ [][C21_VerifyStep]_vars
  /\ [](\A i \in 1..Len(calls) :
          /\ ReturnsOutcome(calls[i])
          /\ (calls[i].status = "returned" /\ ~calls[i].fromCache
              /\ calls[i].result.error \in MismatchReasons)
               => KeyData(predefinedKeys, calls[i].parsed.keyId) # {})
\* The keys are loaded; the token of an unknown key id was returned with the
\* unknown-key reason and the token signed with another secret with the
\* reason of a signature mismatch.
C21_Witness ==
  /\ publicKeys # {}
  /\ \E i, j \in ReturnedCalls :
       /\ calls[i].qrData = QRInputs.hmacUnknownKid /\ ~calls[i].fromCache
       /\ calls[i].result.error = "Unbekannte Key-ID"
       /\ calls[j].qrData = QRInputs.hmacOtherKey /\ ~calls[j].fromCache
       /\ calls[j].result.error \in MismatchReasons

\* config.supportedAlgorithms.
supportedAlgorithms == {Str(Lit.ECDSA), Str(Lit.RSAPSS), Str(Lit.HMAC)}
\* C23: for a token whose declared algorithm is one of supportedAlgorithms
\* the dispatch of verifySignature reaches the verifier of that algorithm
\* and does not fault: the verification is fulfilled with a result or is
\* waiting for the Web Crypto API, and what the caller gets is not the
\* error of a call that could not be made.
C23_SupportedDispatch ==
  \A i \in 1..Len(calls) :
    (calls[i].parsed.ok /\ calls[i].parsed.algorithm \in supportedAlgorithms)
      => /\ calls[i].outcome.kind \in {"fulfilled", "crypto"}
         /\ calls[i].status = "returned" => calls[i].result.error # "TypeError: not a function"

\* C24: isDoorUnlocked called with a challenge id outside 1..24 answers with
\* an error signal, never with a plain true or false.
C24_OutOfRangeSignalled ==
  doorCheck # NoCheck =>
    \A d \in OutOfRangeDays : doorCheck.outOfRange[d] \notin BOOLEAN

\* The instant r is 09:00 (the daily release) on the calendar day that lies
\* `days` days after the calendar day of the instant t.
ReleaseOfDay(r, t, days) ==
  /\ GetHours(r) = DailyUnlockHour /\ GetMinutes(r) = DailyUnlockMinute
  /\ DayIndex(r) = DayIndex(t) + days
RECURSIVE AfterRule(_, _, _)
AfterRule(s, rules, i) ==
  IF i = 0 THEN s ELSE applyRule(AfterRule(s, rules, i - 1), rules[i])
\* C26: normalizeAnswer applies the rules in force in their listed order,
\* each to the output of the one before; a rule name without a case leaves
\* the text as it is, and the rules after it are applied as if it were not
\* in the list.
C26_StepsInOrder ==
  (Submitted /\ submission.via = "AnswersStore" /\ submission.answer_raw # <<>>) =>
    LET rules == RulesInForce
        known == SelectSeq(rules, LAMBDA r : r \in KnownRules)
    IN  /\ submission.answer_norm = AfterRule(submission.answer_raw, rules, Len(rules))
        /\ submission.answer_norm = AfterRule(submission.answer_raw, known, Len(known))
        /\ \A i \in 1..Len(rules) :
             rules[i] \notin KnownRules
               => AfterRule(submission.answer_raw, rules, i)
                    = AfterRule(submission.answer_raw, rules, i - 1)
\* An answer went through a list whose first name has no case and whose
\* second rule changed the text.
C26_Witness ==
  /\ Submitted /\ submission.via = "AnswersStore"
  /\ Len(RulesInForce) = 2
  /\ RulesInForce[1] \notin KnownRules /\ RulesInForce[2] \in KnownRules
  /\ submission.answer_norm # submission.answer_raw

\* The answer check of the submission could not be completed: the reference
\* hashes decide (no accepted list) and window.SecurityStatic has no
\* validateAnswerHash to compare them with.
CheckNotCompleted ==
  /\ submission.via = "AnswersStore"
  /\ ~submission.stage2Config.accepted.set
  /\ submission.stage2Config.answer_hashes.set
  /\ submission.stage2Config.answer_hashes.list # <<>>
  /\ ~submission.securityStatic
\* C22: a submission whose answer check could not be completed is not
\* reported with isCorrect = false, the outcome of a wrong answer.
C22_FailureNotReportedIncorrect ==
  (Submitted /\ CheckNotCompleted) => submission.isCorrect # FALSE

\* C27: when handleStage2QRCode has run for a token that the QR verifier
\* accepts for { day, stage: 2 }, with the stage-2 data of the door at hand
\* and a page the view can be rendered into, the stage-2 hint view is open
\* and no error message is shown.
C27_HintViewRendered ==
  (/\ stage2.flow = "qr" /\ stage2.pc = "done"
   /\ stage2.qrVerify = "QRVerify" /\ stage2.qrToken = "accepted"
   /\ stage2.calendar # "absent" /\ stage2.hasStage2 /\ stage2.rendered)
    => stage2.view = "stage2-hint" /\ stage2.shown = Msg.none

\* The submit handler of main.js has finished with an answer in the field.
AnswerHandled ==
  /\ stage2.flow = "submit" /\ stage2.caller = "main" /\ stage2.pc = "done"
  /\ Trim(stage2.text) # <<>>
\* The answer of the field is correct under the answer_meta of its door.
DoorAccepts ==
  validateAnswer(normalizeAnswer(Trim(stage2.text), stage2.doorMeta.config),
                 stage2.doorMeta.config, stage2.securityStatic)
\* C28: after the submission of an answer the success message of the door
\* (or its default) is shown only if the answer is correct under the
\* answer_meta of the door, and an answer that is not correct is answered
\* with the error message of the door (or its default).
C28_MessageFollowsValidation ==
  AnswerHandled =>
    LET successMsg == IF stage2.doorMeta.success_message # ""
                        THEN stage2.doorMeta.success_message ELSE Msg.submitted
        errorMsg == IF stage2.doorMeta.error_message # ""
                      THEN stage2.doorMeta.error_message ELSE Msg.notSent
    IN  /\ stage2.shown \in {successMsg, Msg.submitted} => DoorAccepts
        /\ ~DoorAccepts => stage2.shown = errorMsg

\* The submission of the store is an entry of localStorage.
StoredLocally ==
  \E i \in 1..Len(stage2.localStorage) :
    stage2.localStorage[i] = Stored(stage2.answer_raw, stage2.answer_norm, stage2.isCorrect)
\* C29: with the local backup enabled, a submission that passed the session
\* check is in localStorage when the request to the server is made, and
\* when the store has returned; after a server error or timeout the result
\* is ok with serverSaved = false.
C29_StoredBeforeSent ==
  (stage2.flow = "submit" /\ stage2.enableLocalBackup /\ stage2.validated) =>
    /\ stage2.attempts > 0 => stage2.storedWhenSent /\ StoredLocally
    /\ stage2.pc \in {"returned", "done"}
         => /\ StoredLocally
            /\ (stage2.attempts > 0 /\ ~stage2.serverResult.success)
                 => stage2.result.ok /\ ~stage2.result.serverSaved

\* C30: when submitToServer has returned after a network error or a
\* timeout of its request, the request had been made at least twice.
C30_ServerSendRetried ==
  (/\ stage2.flow = "submit" /\ stage2.pc \in {"finish", "returned", "done"}
   /\ stage2.serverResult.error \in {"Failed to fetch", "Request timeout"})
    => stage2.attempts >= 2

(***************************************************************************)
(* Part 13. AnswerUtil.processAnswer: the rate limit, validateAnswer,      *)
(* normalizeAnswer, verifyAnswer with the answer cache, recordSubmission   *)
(* and the points.  A verification result is a JavaScript object: the      *)
(* cache entry and every caller it was returned to hold the same object,   *)
(* named here by `ref`, the number of the call that created it; an         *)
(* assignment to a property of the object is seen by all of them.          *)
(* window.SecurityStatic, when present, answers checkRateLimit and leaves  *)
(* the answers below as they are in sanitizeInput; the puzzles carry       *)
(* plaintext references, which createSecureHash has no part in.            *)
(***************************************************************************)

MinLength == 1
MaxLength == 100
BasePoints == 10
Stage2Multiplier == 2
MaxTimeBonus == 5
MsPerDay == 24 * 60 * 60 * 1000

ForbiddenWords ==
  {<<116, 101, 115, 116>>, <<97, 100, 109, 105, 110>>, <<112, 97, 115, 115, 119, 111, 114, 100>>}

\* String.prototype.includes.
Includes(s, w) == \E i \in 1..(Len(s) - Len(w) + 1) : SubSeq(s, i, i + Len(w) - 1) = w

\* config.validation.allowedChars: /^[a-zA-Z0-9äöüßÄÖÜ\s-_.,:;!?]+$/.
AllowedChar(c) ==
  \/ (c >= 97 /\ c <= 122) \/ (c >= 65 /\ c <= 90) \/ (c >= 48 /\ c <= 57)
  \/ c \in {228, 246, 252, 223, 196, 214, 220}
  \/ IsSpace(c)
  \/ c \in {45, 95, 46, 44, 58, 59, 33, 63}

\* SecurityStatic.sanitizeInput on a text of allowed characters.
sanitizeInput(text) == text

\* AnswerUtil.validateAnswer(answer) for a string.
AnswerUtil_validateAnswer(answer) ==
  LET trimmed == Trim(answer)
      invalid(error) == [valid |-> FALSE, error |-> error, sanitized |-> <<>>]
  IN  IF answer = <<>> THEN invalid("Antwort fehlt oder ist ungueltig")
      ELSE IF Len(trimmed) < MinLength THEN invalid("Antwort zu kurz (mindestens 1 Zeichen)")
      ELSE IF Len(trimmed) > MaxLength THEN invalid("Antwort zu lang (maximal 100 Zeichen)")
      ELSE IF \E i \in 1..Len(trimmed) : ~AllowedChar(trimmed[i])
        THEN invalid("Antwort enthaelt ungueltige Zeichen")
      ELSE IF \E w \in ForbiddenWords : Includes(ToLowerCase(trimmed), w)
        THEN invalid("Antwort enthaelt ungueltige Begriffe")
      ELSE [valid |-> TRUE, error |-> "", sanitized |-> sanitizeInput(trimmed)]

\* calculatePoints(puzzleData, matchedHash) at time t.  Math.round of the
\* time bonus maxTimeBonus * (1 - hoursElapsed / 24), in whole numbers.
calculatePoints(puzzleData, t) ==
  LET base == IF puzzleData.points # 0 THEN puzzleData.points ELSE BasePoints
      stage == IF DigitsValue(puzzleData.day, 1, Len(puzzleData.day)) > 12 THEN 2 ELSE 1
      staged == IF stage = 2 THEN base * Stage2Multiplier ELSE base
      elapsed == t - puzzleData.releaseTime.at
      bonus == IF elapsed >= MsPerDay THEN 0
               ELSE (2 * MaxTimeBonus * (MsPerDay - elapsed) + MsPerDay) \div (2 * MsPerDay)
  IN  IF puzzleData.releaseTime.set /\ elapsed < MsPerDay THEN staged + bonus ELSE staged

\* A result object: the fields verifyAnswer gives it, `points` (-1 while
\* the object has no such property) and the `error` of an error result.
ResultObject(ref, r, verificationTime) ==
  [ref |-> ref, correct |-> r.correct, matchedHash |-> r.matchedHash, algorithm |-> r.algorithm,
   saltUsed |-> r.saltUsed, verificationTime |-> verificationTime, points |-> -1, error |-> ""]
\* createErrorResult(message): { correct: false, error: message, timestamp }.
createErrorResult(ref, message) ==
  [ResultObject(ref, AnswerResult(FALSE, <<>>, <<>>, <<>>), -1) EXCEPT !.error = message]

\* The answers typed in: "a", "A " and "b", and the empty field.
RawAnswers == {UtilText.a, <<65, 32>>, UtilText.b, <<>>}

\* The puzzles: the plaintext puzzle of day 2, the same puzzle worth 20
\* points, and a puzzle with a reference in the plaintext hash format that
\* was released 2 h 23 min 30 s before the page was loaded.
ProcessPuzzles ==
  LET scored(p, points, released, at) ==
        [day |-> p.day, answerHash |-> p.answerHash, answerHashes |-> p.answerHashes,
         answerPlaintext |-> p.answerPlaintext, points |-> points,
         releaseTime |-> [set |-> released, at |-> at]]
  IN  {scored(Puzzles.plain, 0, FALSE, 0), scored(Puzzles.plain, 20, FALSE, 0),
       scored(Puzzles.hashedPlain, 0, TRUE, 0 - 8610000)}

MaxProcessCalls == 2
MaxProcessClock == 60000

\* One call of processAnswer: its arguments, what checkRateLimit answered,
\* how far it got (op), whether it looked into the cache and whether it ran
\* a verification, its result object and its entry in submissionHistory.
NoRecord == [correct |-> FALSE, points |-> 0, verificationTime |-> 0, made |-> FALSE]
ProcessCall(rawAnswer, puzzleData, rateLimit, t) ==
  [rawAnswer |-> rawAnswer, puzzleData |-> puzzleData, rateLimit |-> rateLimit, startedAt |-> t,
   status |-> "pending", op |-> "none", normalizedAnswer |-> <<>>,
   lookedUp |-> FALSE, verified |-> FALSE, fromCache |-> FALSE,
   result |-> createErrorResult(0, ""), recorded |-> NoRecord, returnedAt |-> -1]

ProcessInit ==
  /\ TimeIdle
  /\ submission = NoSubmission
  /\ stage2 = NoStage2
  /\ modalConfirm = NoModal
  /\ clock = 0
  /\ session \in [subtle : {FALSE}, security : BOOLEAN, script : {<<>>}]
  /\ publicKeys = {}
  /\ nextCleanup = AnswerCleanupPeriod
  /\ verificationCache = <<>>
  /\ calls = <<>>
  /\ cacheConfig = [maxEntries |-> AnswerCacheMaxEntries, ttl |-> AnswerCacheTtl]
  /\ answerCache = <<>>
  /\ answerCalls = <<>>

\* The continuation of a processAnswer whose verifyAnswer has returned
\* waits in the microtask queue: it runs before any event or timer.
ContinuationReady == \E i \in 1..Len(answerCalls) : answerCalls[i].op = "continue"

\* processAnswer(rawAnswer, puzzleData) up to `await this.verifyAnswer(...)`,
\* verifyAnswer up to its first await or to its return; or to the return of
\* processAnswer when it does not get that far.
processAnswerSync(rawAnswer, puzzleData, rateOk, n, cache, t) ==
  LET rateLimit == IF ~session.security THEN "unasked" ELSE IF rateOk THEN "allowed" ELSE "denied"
      call == ProcessCall(rawAnswer, puzzleData, rateLimit, t)
      failed(message) == [call EXCEPT !.status = "returned", !.op = "done",
                                      !.result = createErrorResult(n, message), !.returnedAt = t]
      validation == AnswerUtil_validateAnswer(rawAnswer)
      normalizedAnswer == AnswerUtil_normalizeAnswer(validation.sanitized, DefaultNormalization)
      cacheKey == AnswerUtil_getCacheKey(normalizedAnswer, puzzleData)
      hits == {i \in 1..Len(cache) : cache[i].key = cacheKey /\ t - cache[i].timestamp < cacheConfig.ttl}
      looked == [call EXCEPT !.normalizedAnswer = normalizedAnswer, !.lookedUp = TRUE]
  IN  IF ~session.security THEN failed("TypeError: window.SecurityStatic is undefined")
      ELSE IF ~rateOk THEN failed("Rate-Limit fuer Antwort-Submissions ueberschritten")
      ELSE IF ~validation.valid THEN failed(validation.error)
      ELSE IF hits # {}
        THEN [looked EXCEPT !.op = "continue", !.fromCache = TRUE,
                            !.result = cache[SetMin(hits)].result]
      ELSE IF puzzleData.answerHash # <<>> \/ puzzleData.answerHashes # <<>>
        THEN [looked EXCEPT !.op = "verifyAgainstHash"]
      ELSE [looked EXCEPT !.op = "continue", !.verified = TRUE,
                          !.result = ResultObject(n, verifyAnswerSteps(normalizedAnswer, puzzleData), 0)]

processAnswer ==
  /\ Len(answerCalls) < MaxProcessCalls
  /\ ~ContinuationReady
  /\ \E rawAnswer \in RawAnswers, puzzleData \in ProcessPuzzles, rateOk \in BOOLEAN :
       LET call == processAnswerSync(rawAnswer, puzzleData, rateOk, Len(answerCalls) + 1,
                                     answerCache, clock)
       IN  /\ answerCalls' = Append(answerCalls, call)
           /\ answerCache' =
                IF call.verified
                  THEN cacheResult(answerCache, cacheConfig.maxEntries,
                                   AnswerUtil_getCacheKey(call.normalizedAnswer, puzzleData),
                                   call.result, clock)
                  ELSE answerCache
  /\ UNCHANGED <<modalConfirm, clock, session, publicKeys, nextCleanup, verificationCache, calls,
                 submission, stage2, cacheConfig, timeVars>>

\* verifyAgainstHash settles: verifyAnswer measures its time, caches the
\* result object and returns it.
verifyAgainstHashSettles ==
  \E i \in 1..Len(answerCalls) :
    /\ answerCalls[i].op = "verifyAgainstHash"
    /\ ~ContinuationReady
    /\ LET call == answerCalls[i]
           result == ResultObject(i, verifyAnswerSteps(call.normalizedAnswer, call.puzzleData),
                                  clock - call.startedAt)
       IN  /\ answerCalls' = [answerCalls EXCEPT ![i] =
                                [call EXCEPT !.op = "continue", !.verified = TRUE, !.result = result]]
           /\ answerCache' = cacheResult(answerCache, cacheConfig.maxEntries,
                                         AnswerUtil_getCacheKey(call.normalizedAnswer, call.puzzleData),
                                         result, clock)
    /\ UNCHANGED <<modalConfirm, clock, session, publicKeys, nextCleanup, verificationCache, calls,
                   submission, stage2, cacheConfig, timeVars>>

\* `verificationResult.points = ...`: the object `ref` gets its points,
\* wherever it is held.
AssignPoints(result, ref, points) == IF result.ref = ref THEN [result EXCEPT !.points = points] ELSE result
AssignPointsKept(result, ref, points) == result

\* processAnswer after `await this.verifyAnswer(...)`: recordSubmission,
\* the points of a correct answer, and the return.
processAnswerContinue ==
  \E i \in 1..Len(answerCalls) :
    /\ answerCalls[i].op = "continue"
    /\ LET call == answerCalls[i]
           result == call.result
           points == calculatePoints(call.puzzleData, clock)
           recorded == [correct |-> result.correct,
                        points |-> IF result.points > 0 THEN result.points ELSE 0,
                        verificationTime |-> result.verificationTime, made |-> TRUE]
           done == [answerCalls EXCEPT ![i] =
                      [call EXCEPT !.status = "returned", !.op = "done",
                                   !.recorded = recorded, !.returnedAt = clock]]
       IN  IF result.correct
             THEN /\ answerCalls' = [j \in 1..Len(done) |->
                                       [done[j] EXCEPT !.result = AssignPoints(@, result.ref, points)]]
                  /\ answerCache' = [j \in 1..Len(answerCache) |->
                                       [answerCache[j] EXCEPT !.result = AssignPoints(@, result.ref, points)]]
             ELSE /\ answerCalls' = done
                  /\ answerCache' = answerCache
    /\ UNCHANGED <<modalConfirm, clock, session, publicKeys, nextCleanup, verificationCache, calls,
                   submission, stage2, cacheConfig, timeVars>>

\* Time passes until the sweep is due; continuations run first.
ProcessTick ==
  /\ ~AnswerPending
  /\ clock < nextCleanup
  /\ nextCleanup <= MaxProcessClock
  /\ clock' = nextCleanup
  /\ UNCHANGED <<modalConfirm, session, publicKeys, nextCleanup, verificationCache, calls, answerVars, timeVars>>

ProcessNext ==
  \/ processAnswer
  \/ verifyAgainstHashSettles
  \/ processAnswerContinue
  \/ answerCleanup
  \/ ProcessTick
SpecProcess == ProcessInit /\ [][ProcessNext]_vars

\* The page at work with one of the two rate-limited entry points, with
\* window.SecurityStatic (and so the rate limiter) present: a session of
\* token scans, whose script holds the tokens, or a session of answers.
\* The two share no state but the clock.
AnswerSession == session.script = <<>>
GateInit == (QRInit \/ ProcessInit) /\ session.security
GateProcessAnswer == AnswerSession /\ processAnswer
GateVerifyAgainstHashSettles == AnswerSession /\ verifyAgainstHashSettles
GateProcessAnswerContinue == AnswerSession /\ processAnswerContinue
GateAnswerCleanup == AnswerSession /\ answerCleanup
GateProcessTick == AnswerSession /\ ProcessTick
GateNext ==
  \/ QRNext
  \/ GateProcessAnswer
  \/ GateVerifyAgainstHashSettles
  \/ GateProcessAnswerContinue
  \/ GateAnswerCleanup
  \/ GateProcessTick
SpecGate == GateInit /\ [][GateNext]_vars

(***************************************************************************)
(* Part 14.  AnswersStore: the Stage-2 sessions and the calls of            *)
(* submitStage2Answer that run side by side.  A call looks its session up   *)
(* at step 1 and deletes it at step 8, after the awaits of normalizeAnswer, *)
(* validateAnswer, saveToLocalStorage and submitToServer; a second call     *)
(* made before the first has come back (a second click while the fetch is   *)
(* in flight, two calls in one task) runs between the two.                  *)
(***************************************************************************)
MaxSessions == 2
MaxSubmitCalls == 3

\* One call of submitStage2Answer: its payload's sessionId, where it is, and
\* what it returned.
SubmitCall(sessionId, pc, result) == [sessionId |-> sessionId, pc |-> pc, result |-> result]
\* A submission as saved or sent: the session and the call that built it.
SessionSubmission(sessionId, call) == [sessionId |-> sessionId, call |-> call]

SessionsInit ==
  /\ TimeIdle
  /\ QRIdle
  /\ submission = NoSubmission
  /\ cacheConfig = [maxEntries |-> AnswerCacheMaxEntries, ttl |-> AnswerCacheTtl]
  /\ answerCache = <<>> /\ answerCalls = <<>>
  /\ modalConfirm = NoModal
  /\ \E enableLocalBackup \in BOOLEAN, endpoint \in BOOLEAN :
       stage2 = [flow |-> "sessions", enableLocalBackup |-> enableLocalBackup,
                 endpoint |-> endpoint, started |-> 0, stage2Sessions |-> {},
                 submitCalls |-> <<>>, localStorage |-> <<>>, requests |-> <<>>]

\* trackStage2Start: a new session under a sessionId of the day and
\* Date.now(), set in stage2Sessions.
trackStage2Start ==
  /\ stage2.flow = "sessions" /\ stage2.started < MaxSessions
  /\ stage2' = [stage2 EXCEPT !.started = @ + 1,
                              !.stage2Sessions = @ \cup {stage2.started + 1}]
  /\ UNCHANGED <<modalConfirm, submission, cacheConfig, answerCache, answerCalls, timeVars, qrVars>>

\* submitStage2Answer up to its first await: step 1 looks the session up and
\* throws 'Stage-2 Session nicht gefunden' when it is not there, which the
\* catch block turns into { ok: false, errorMessage }.
sessionSubmitStage2Answer ==
  /\ stage2.flow = "sessions" /\ Len(stage2.submitCalls) < MaxSubmitCalls
  /\ \E sessionId \in 1..stage2.started :
       stage2' = [stage2 EXCEPT !.submitCalls =
                    Append(@, IF sessionId \in stage2.stage2Sessions
                                THEN SubmitCall(sessionId, "validate", NoSubmitResult)
                                ELSE SubmitCall(sessionId, "returned",
                                                SubmitResult(FALSE, FALSE, FALSE, FALSE,
                                                             Msg.noSession)))]
  /\ UNCHANGED <<modalConfirm, submission, cacheConfig, answerCache, answerCalls, timeVars, qrVars>>

\* Steps 2 to 7 of one call: the answer is normalised and validated, the
\* submission saved in localStorage (when enableLocalBackup is set) and
\* handed to submitToServer, which fetches when an endpoint is configured.
submitSaveAndSend ==
  /\ stage2.flow = "sessions"
  /\ \E i \in DOMAIN stage2.submitCalls :
       /\ stage2.submitCalls[i].pc = "validate"
       /\ LET entry == SessionSubmission(stage2.submitCalls[i].sessionId, i)
          IN  stage2' = [stage2 EXCEPT
                !.submitCalls[i].pc = "submitToServer",
                !.submitCalls[i].result.localSaved = stage2.enableLocalBackup,
                !.localStorage = IF stage2.enableLocalBackup
                                   THEN KeepLast(Append(@, entry), MaxSubmissionsInMemory)
                                   ELSE @,
                !.requests = IF stage2.endpoint THEN Append(@, entry) ELSE @]
  /\ UNCHANGED <<modalConfirm, submission, cacheConfig, answerCache, answerCalls, timeVars, qrVars>>

\* submitToServer returns (the fetch has settled, or there is no endpoint);
\* step 8 deletes the session and step 9 builds the result, ok = true.  The
\* answers are not told apart here: isCorrect stays false.
submitFinish ==
  /\ stage2.flow = "sessions"
  /\ \E i \in DOMAIN stage2.submitCalls, outcome \in FetchOutcomes :
       /\ stage2.submitCalls[i].pc = "submitToServer"
       /\ stage2' = [stage2 EXCEPT
             !.stage2Sessions = @ \ {stage2.submitCalls[i].sessionId},
             !.submitCalls[i].pc = "returned",
             !.submitCalls[i].result =
                SubmitResult(TRUE, @.localSaved, stage2.endpoint /\ outcome = "ok", FALSE, "")]
  /\ UNCHANGED <<modalConfirm, submission, cacheConfig, answerCache, answerCalls, timeVars, qrVars>>

SessionsNext ==
  \/ trackStage2Start
  \/ sessionSubmitStage2Answer
  \/ submitSaveAndSend
  \/ submitFinish
SpecSessions == SessionsInit /\ [][SessionsNext]_vars

(***************************************************************************)
(* Part 15.  ModalConfirm: confirm(), the queue of waiting requests,        *)
(* closeModal with its close animation, and closeAll.  A modal is named by  *)
(* the number of the confirm() call that asked for it; promises[id] is the  *)
(* promise that call returned.  closeModal is an async function: it starts  *)
(* the animation of the element of the modal that is active when it is      *)
(* called and reads this.activeModal again when the animation's timer has   *)
(* fired.  The timers all run animation.duration and fire in the order in   *)
(* which they were set; the continuation of closeModal is a microtask and   *)
(* runs right after its timer.  Auto-close is off, as configured.           *)
(***************************************************************************)
MaxModals == 3
MaxClosing == 2

Pending == [value |-> "pending", by |-> 0, resolveCalls |-> 0]
\* resolve(confirmed) of the promise of a modal, called when the animation
\* of `element` has ended; a promise keeps its first value.
Resolve(promise, confirmed, element) ==
  IF promise.value = "pending"
    THEN [value |-> IF confirmed THEN "true" ELSE "false", by |-> element,
          resolveCalls |-> 1]
    ELSE [promise EXCEPT !.resolveCalls = @ + 1]

ModalInit ==
  /\ TimeIdle
  /\ QRIdle
  /\ AnswerIdle

\* showModal: the element is appended to the container and the request
\* becomes the active modal.
showModal(modal, id) ==
  [modal EXCEPT !.activeModal = id, !.container = @ \cup {id}]

\* processQueue: the first waiting request is shown, if there is one.
processQueue(modal) ==
  IF modal.modalQueue = <<>> THEN modal
  ELSE showModal([modal EXCEPT !.modalQueue = Tail(@)], Head(modal.modalQueue))

\* confirm(options): a new promise; the request waits when a modal is
\* active (also one whose close animation runs), else it is shown.
confirm ==
  /\ Len(modalConfirm.promises) < MaxModals
  /\ LET id == Len(modalConfirm.promises) + 1
         asked == [modalConfirm EXCEPT !.promises = Append(@, Pending)]
     IN  modalConfirm' =
           IF modalConfirm.activeModal # 0
             THEN [asked EXCEPT !.modalQueue = Append(@, id)]
             ELSE showModal(asked, id)
  /\ UNCHANGED <<timeVars, qrVars, answerVars>>

\* closeModal(confirmed) up to its await: animateOut sets the timer for the
\* element of the modal that is active now.
closeModalStart(modal, confirmed) ==
  [modal EXCEPT !.closing = Append(@, [element |-> modal.activeModal, confirmed |-> confirmed])]

\* A button of the modal, its overlay or the Escape key calls closeModal;
\* without an active modal closeModal returns at once.  The listeners stay
\* in place while the animation runs.
closeModal ==
  /\ modalConfirm.activeModal # 0
  /\ Len(modalConfirm.closing) < MaxClosing
  /\ \E confirmed \in BOOLEAN :
       modalConfirm' = closeModalStart(modalConfirm, confirmed)
  /\ UNCHANGED <<timeVars, qrVars, answerVars>>

\* The timer of animateOut fires: the element leaves the container and
\* closeModal goes on.  It resolves the promise of this.activeModal as it
\* is now, clears it and shows the next request; with no active modal
\* `this.activeModal.resolve` throws a TypeError, the catch block throws it
\* again and the promise of closeModal is rejected with nobody to catch it.
animateOutEnds ==
  /\ modalConfirm.closing # <<>>
  /\ LET timer == Head(modalConfirm.closing)
         removed == [modalConfirm EXCEPT !.closing = Tail(@),
                                         !.container = @ \ {timer.element}]
         active == modalConfirm.activeModal
     IN  modalConfirm' =
           IF active = 0
             THEN [removed EXCEPT !.unhandledRejections = @ + 1]
             ELSE processQueue([removed EXCEPT
                    !.promises[active] = Resolve(@, timer.confirmed, timer.element),
                    !.activeModal = 0])
  /\ UNCHANGED <<timeVars, qrVars, answerVars>>

\* closeAll(): closeModal(false) for the active modal, then the queue is
\* replaced by an empty array.  closedAll remembers the requests made
\* before closeAll was called.
closeAll ==
  /\ modalConfirm.activeModal # 0 => Len(modalConfirm.closing) < MaxClosing
  /\ LET closed == IF modalConfirm.activeModal # 0
                     THEN closeModalStart(modalConfirm, FALSE) ELSE modalConfirm
     IN  modalConfirm' = [closed EXCEPT !.modalQueue = <<>>,
                                        !.closedAll = 1..Len(modalConfirm.promises)]
  /\ UNCHANGED <<timeVars, qrVars, answerVars>>

ModalNext ==
  \/ confirm
  \/ closeModal
  \/ animateOutEnds
  \/ closeAll
SpecModal == ModalInit /\ [][ModalNext]_vars
\* The timers of the running animations fire.
SpecModalLive == SpecModal /\ WF_vars(animateOutEnds)

(***************************************************************************)
(* Part 16. The statements about the rate limit, the eviction and the      *)
(* sweep of the caches, the result objects, the stage-2 sessions, the      *)
(* modal queue and the monotony of the time gate.                          *)
(***************************************************************************)

\* The verifyQRCode and processAnswer calls the rate limiter refused.
DeniedScans == {i \in 1..Len(calls) : calls[i].rateLimit = "denied"}
DeniedAnswers == {i \in 1..Len(answerCalls) : answerCalls[i].rateLimit = "denied"}
\* A refused call has looked into no cache and run no verification.
DeniedRanNothing ==
  /\ \A i \in DeniedScans :
       ~calls[i].fromCache /\ calls[i].parsed = ParsedNull /\ calls[i].outcome = NoOutcome
  /\ \A i \in DeniedAnswers :
       /\ ~answerCalls[i].lookedUp /\ ~answerCalls[i].verified /\ ~answerCalls[i].fromCache
       /\ answerCalls[i].result.ref = i
\* A refused call has returned a result that is not VALID and says why.
DeniedReturnedError ==
  /\ \A i \in DeniedScans :
       calls[i].status = "returned" /\ ~calls[i].result.valid /\ calls[i].result.error # ""
  /\ \A i \in DeniedAnswers :
       /\ answerCalls[i].status = "returned" /\ ~answerCalls[i].result.correct
       /\ answerCalls[i].result.error # ""
\* A VALID result for the input of a refused call was in the cache.
DeniedWithValidCached ==
  \/ \E i \in DeniedScans : \E e \in 1..Len(verificationCache) :
       /\ verificationCache[e].key = getCacheKey(calls[i].qrData.s)
       /\ verificationCache[e].result.valid
       /\ verificationCache[e].timestamp <= calls[i].startedAt
  \/ \E i \in DeniedAnswers : \E j \in 1..(i - 1) :
       /\ answerCalls[j].rawAnswer = answerCalls[i].rawAnswer
       /\ answerCalls[j].puzzleData = answerCalls[i].puzzleData
       /\ answerCalls[j].verified /\ answerCalls[j].result.correct

\* C31: a call of verifyQRCode or processAnswer that the rate limiter
\* refuses returns a result that is not VALID and carries an error, and has
\* neither looked into the cache nor run a verification, whatever the
\* cache holds for its input.
C31_DeniedReturnsError == DeniedRanNothing /\ DeniedReturnedError

\* The keys of a cache, and the entries of `old` whose key `new` has lost.
CacheKeys(cache) == {cache[i].key : i \in 1..Len(cache)}
Evicted(old, new) == {i \in 1..Len(old) : old[i].key \notin CacheKeys(new)}
\* An insert into the answer cache: a verification has returned its result.
AnswerInsert ==
  /\ answerCalls' # answerCalls
  /\ \E i \in 1..Len(answerCalls') :
       /\ answerCalls'[i].status = "returned" /\ ~answerCalls'[i].fromCache
       /\ i > Len(answerCalls) \/ answerCalls[i].status = "pending"
\* The key the insert is for.
InsertedKey ==
  LET i == CHOOSE j \in 1..Len(answerCalls') :
             /\ answerCalls'[j].status = "returned"
             /\ j > Len(answerCalls) \/ answerCalls[j].status = "pending"
  IN  AnswerUtil_getCacheKey(answerCalls'[i].normalizedAnswer, answerCalls'[i].puzzleData)
\* An insert with the cache filled to its capacity removes the fifth of the
\* capacity (rounded down) with the oldest time stamps and nothing else:
\* what it removes is no younger than anything it keeps, what it keeps is
\* left as it was, and the inserted key gets its entry.  An insert below
\* the capacity removes nothing.
C32_InsertStep ==
  AnswerInsert =>
    LET old == answerCache
        new == answerCache'
        atCapacity == Len(old) >= cacheConfig.maxEntries
        fifth == (cacheConfig.maxEntries * 2) \div 10
        gone == Evicted(old, new)
        reinserted == IF InsertedKey \in CacheKeys(old) THEN 1 ELSE 0
    IN  /\ ~atCapacity => gone = {}
        /\ atCapacity => Cardinality(gone) \in {fifth, fifth - reinserted}
        /\ \A g \in gone : \A k \in 1..Len(old) :
             (k \notin gone /\ old[k].key # InsertedKey) => old[g].timestamp <= old[k].timestamp
        /\ \A k \in 1..Len(old) :
             (k \notin gone /\ old[k].key # InsertedKey) => \E j \in 1..Len(new) : new[j] = old[k]
        /\ \E j \in 1..Len(new) : new[j].key = InsertedKey /\ new[j].timestamp = clock
        /\ Len(new) = Len(old) - Cardinality(gone) + (1 - reinserted)

\* C32: an insert performed when the answer cache is at capacity first
\* removes the 20% of entries with the oldest insertion times and only
\* those; no entry that survives is older than an evicted one; an insert
\* below capacity removes nothing.
C32_EvictsOldestFifth == [][C32_InsertStep]_vars
\* A cache of capacity 5 or 6 has evicted the entry of the first call, the
\* oldest, and holds entries of different insertion times.
C32_Witness ==
  /\ cacheConfig.maxEntries \in {5, 6}
  /\ Len(answerCalls) > cacheConfig.maxEntries
  /\ \A i \in 1..Len(answerCalls) : answerCalls[i].status = "returned" /\ ~answerCalls[i].fromCache
  /\ AnswerUtil_getCacheKey(answerCalls[1].normalizedAnswer, answerCalls[1].puzzleData)
       \notin CacheKeys(answerCache)
  /\ Len(answerCache) = cacheConfig.maxEntries
  /\ \E i, j \in 1..Len(answerCache) : answerCache[i].timestamp < answerCache[j].timestamp

\* The sweep of the answer cache has run in this step.
AnswerSweep == nextCleanup' # nextCleanup
\* The sweep removes exactly the entries older than the TTL: what is left is
\* the entries of age up to the TTL, unchanged and in their order.
C33_SweepStep ==
  AnswerSweep =>
    /\ \A i \in 1..Len(answerCache) :
         clock - answerCache[i].timestamp > cacheConfig.ttl
           => answerCache[i].key \notin CacheKeys(answerCache')
    /\ answerCache' = SelectSeq(answerCache, LAMBDA e : clock - e.timestamp <= cacheConfig.ttl)
    /\ nextCleanup' = nextCleanup + AnswerCleanupPeriod
\* No entry is in the cache for longer than the TTL and one sweep period.
C33_NoEntryOutlives ==
  \A i \in 1..Len(answerCache) :
    clock - answerCache[i].timestamp <= cacheConfig.ttl + AnswerCleanupPeriod
\* The sweep is due every AnswerCleanupPeriod, whatever is looked up.
C33_SweepOnTime == clock <= nextCleanup /\ nextCleanup % AnswerCleanupPeriod = 0

\* C33: the periodic sweep removes exactly the entries older than the TTL
\* and leaves every other entry unchanged; it is due every minute whatever
\* is looked up, and no entry stays in the cache for longer than the TTL
\* plus one sweep period.
C33_SweepBoundsAge == [][C33_SweepStep]_vars /\ [](C33_NoEntryOutlives /\ C33_SweepOnTime)
\* The sweep at TTL + one period has removed the entry of a call made at
\* time 0 that nothing has looked up since.
C33_Witness ==
  /\ clock = cacheConfig.ttl + AnswerCleanupPeriod /\ nextCleanup > clock
  /\ Len(answerCalls) = 1
  /\ answerCalls[1].status = "returned" /\ ~answerCalls[1].fromCache /\ answerCalls[1].startedAt = 0
  /\ answerCache = <<>>

\* The result objects the answer cache holds, by their identity.
CachedRefs(cache) == {cache[i].result.ref : i \in 1..Len(cache)}
\* The object `ref` as the cache holds it.
CachedObject(cache, ref) == cache[CHOOSE i \in 1..Len(cache) : cache[i].result.ref = ref].result
\* A result object that is in the cache before and after a step has the
\* same properties after it, and so has every result a call has returned.
C34_ResultsKept ==
  /\ \A ref \in CachedRefs(answerCache) \cap CachedRefs(answerCache') :
       CachedObject(answerCache', ref) = CachedObject(answerCache, ref)
  /\ \A i \in 1..Len(answerCalls) :
       answerCalls[i].status = "returned" => answerCalls'[i].result = answerCalls[i].result

\* C34: a verification result that verifyAnswer has returned and stored in
\* the answer cache is not modified by any later step of processAnswer, of
\* the same call or of another.
C34_CachedResultImmutable == [][C34_ResultsKept]_vars

\* The entries of a sequence of submissions that belong to one session.
OfSession(submissions, sessionId) ==
  {k \in 1..Len(submissions) : submissions[k].sessionId = sessionId}
\* What a call made for a session that is not there returns: nothing saved,
\* nothing sent, the session-not-found message.
SessionNotFound(i) ==
  /\ stage2.submitCalls[i].pc = "returned"
  /\ stage2.submitCalls[i].result =
       SubmitResult(FALSE, FALSE, FALSE, FALSE, Msg.noSession)
  /\ \A k \in 1..Len(stage2.localStorage) : stage2.localStorage[k].call # i
  /\ \A k \in 1..Len(stage2.requests) : stage2.requests[k].call # i
\* No session has two submissions in localStorage or two requests sent.
AtMostOneRecorded ==
  \A sessionId \in 1..MaxSessions :
    /\ Cardinality(OfSession(stage2.localStorage, sessionId)) <= 1
    /\ Cardinality(OfSession(stage2.requests, sessionId)) <= 1
\* Every call after the first for its sessionId has failed.
LaterCallsFail ==
  \A i, j \in 1..Len(stage2.submitCalls) :
    i < j /\ stage2.submitCalls[i].sessionId = stage2.submitCalls[j].sessionId
      => SessionNotFound(j)

\* C35: each Stage-2 session leads to at most one recorded submission; once
\* submitStage2Answer has been invoked for a sessionId, every further call
\* with that sessionId, also one running at the same time, fails with the
\* session-not-found result and saves and sends nothing.
C35_OneSubmissionPerSession ==
  stage2.flow = "sessions" => AtMostOneRecorded /\ LaterCallsFail

\* The requests confirm() has taken so far.
Requests == 1..Len(modalConfirm.promises)
Resolved(id) == id \in Requests /\ modalConfirm.promises[id].value # "pending"
Waiting(id) == \E k \in 1..Len(modalConfirm.modalQueue) : modalConfirm.modalQueue[k] = id
\* A promise is resolved by one call of its resolve function, made when the
\* close animation of its own modal has ended, and its element has left
\* the container by then.
ResolvedByOwnClosing(id) ==
  /\ modalConfirm.promises[id].resolveCalls <= 1
  /\ Resolved(id) => modalConfirm.promises[id].by = id /\ id \notin modalConfirm.container
\* closeModal never fails for want of an active modal.
NoCloseWithoutModal == modalConfirm.unhandledRejections = 0

\* C36: each promise returned by confirm() is resolved at most once and only
\* by the closing of its own modal; closing the active modal, also with a
\* second closeModal while the close animation runs, neither resolves nor
\* closes a modal that was waiting in the queue.
C36_ResolvedByOwnModal ==
  /\ \A id \in Requests : ResolvedByOwnClosing(id)
  /\ \A id \in Requests : Waiting(id) => ~Resolved(id) /\ id \notin modalConfirm.container

\* A request whose promise is pending is the active modal or waits in the
\* queue.
NoRequestDiscarded ==
  \A id \in Requests : Resolved(id) \/ id = modalConfirm.activeModal \/ Waiting(id)
\* The modals ahead of request id have been closed.
AheadClosed(id) == id \in Requests /\ \A j \in 1..(id - 1) : Resolved(j)

\* C37: every promise returned by confirm() is resolved in the end once
\* closeAll() has been called, a request is shown (or resolved) once the
\* modals ahead of it have been closed, and no request is dropped from the
\* queue with its promise pending.
C37_EveryRequestResolved ==
  /\ []NoRequestDiscarded
  /\ \A id \in 1..MaxModals : (id \in modalConfirm.closedAll) ~> Resolved(id)
  /\ \A id \in 1..MaxModals :
       AheadClosed(id) ~> (Resolved(id) \/ modalConfirm.activeModal = id)

\* A door the check made now reports locked was not reported unlocked by
\* WR_TIME.isDoorUnlocked at any earlier instant.
WRTimeMonotone ==
  doorCheck # NoCheck =>
    \A d \in Doors :
      ~doorCheck.wrTime[d] =>
        \A t \in Instants : t <= doorCheck.at => ~isDoorUnlocked(d, t, devTestUnlock)
\* The same of TimeBerlin.isPuzzleDayAvailable.
TimeBerlinMonotone ==
  doorCheck # NoCheck =>
    \A d \in Doors :
      ~doorCheck.timeBerlin[d] =>
        \A t \in Instants : t <= doorCheck.at => ~isPuzzleDayAvailable(d, t)

\* C38: door availability is monotone in time: a door reported available
\* at time t is reported available at every later time, by
\* WR_TIME.isDoorUnlocked and by TimeBerlin.isPuzzleDayAvailable.
C38_AvailabilityMonotone == WRTimeMonotone /\ TimeBerlinMonotone

Spec == SpecQR
====
